---- MODULE Spec2Model ----
(***************************************************************************)
(* The LM Studio lifecycle manager of ai-commit-cli                        *)
(* (services/lmstudio.js, latest version: src/src/index.js lines 271-590)  *)
(* as a state machine: one action per step of ensureLMStudioRunning,       *)
(* startLMStudio, waitForLMStudio and loadModelWithCLI, and of main        *)
(* (src/src/index.js lines 9-58) around it.  The outcomes of child         *)
(* processes, of fetch, of the completion request and of the prompt, and   *)
(* the duration of a probe are chosen by the environment.                  *)
(***************************************************************************)
EXTENDS Integers, Sequences, FiniteSets, TLC

VARIABLES
    config,            \* config.lmstudio, built by env.js from process.env
    platform,          \* process.platform
    pc,                \* the position of the running call
    error,             \* the kind of the Error the call threw, "none" before
    startCommand,      \* startLMStudio's parameter (reassigned at 486, 488)
    wasAlreadyRunning, \* ensureLMStudioRunning's local (541)
    accessible,        \* the value the last checkLMStudioAccessible returned
    isReady,           \* the value waitForLMStudio returned (555)
    maxWaitTime,       \* waitForLMStudio's parameter
    checkInterval,     \* waitForLMStudio's parameter
    elapsed,           \* Date.now() - startTime inside waitForLMStudio, in ms
    probes,            \* calls of checkLMStudioAccessible so far
    attempts,          \* probes made by waitForLMStudio's loop
    sleeps,            \* setTimeout(resolve, checkInterval) waits completed
    launches,          \* the server launches attempted: <<[cmd, ok], ...>>
    hasCLI,            \* the model-load stage's local (570)
    psCalls,           \* `lms ps` invocations
    loadCalls,         \* `lms load` invocations
    args,              \* loadModelWithCLI's argument list
    loadError,         \* why loadModelWithCLI threw ("" when it did not)
    console,           \* the warnings and notes written so far (a set of tags)
    startHasCLI,       \* startLMStudio's local hasCLI (449)
    probeIn,           \* how the external calls of a single probe end
    mainPc,            \* the position of main, "none" when main is not running
    argv,              \* the flags of process.argv
    isTTY,             \* process.stdin.isTTY
    diff,              \* main's local diff (16)
    commitMsg,         \* main's local commitMsg (33)
    answer,            \* what promptConfirmation got: a chunk of stdin, or the timeout
    confirmed,         \* main's local confirmed (44)
    commits,           \* the messages `git commit -m` was run with
    mainError,         \* what main reported before exiting with 1 ("" for nothing)
    exitCode,          \* the exit code of the process, -1 while it runs
    psResult,          \* how the `lms ps` of isModelLoaded ended, and its stdout
    cliRun,            \* the `lms version` child of an isLMSCLIAvailable call
    prompt,            \* the timer, listener and promise of promptConfirmation
    v1                 \* the state of the version without the helper tool

\* The state of main.
mainVars == <<mainPc, argv, isTTY, diff, commitMsg, answer, confirmed, commits,
              mainError, exitCode>>

\* The state of the lifecycle manager, but for its position.
lifecycleVars == <<error, startCommand, wasAlreadyRunning, accessible, isReady,
                   maxWaitTime, checkInterval, elapsed, probes, attempts, sleeps,
                   launches, hasCLI, psCalls, loadCalls, args, loadError, console,
                   startHasCLI, probeIn, psResult>>

\* The state of the functions that are also studied on their own.
callVars == <<cliRun, prompt, v1>>

vars == <<config, platform, pc, error, startCommand, wasAlreadyRunning,
          accessible, isReady, maxWaitTime, checkInterval, elapsed, probes,
          attempts, sleeps, launches, hasCLI, psCalls, loadCalls, args,
          loadError, console, startHasCLI, probeIn, mainVars, psResult, callVars>>

----------------------------------------------------------------------------
(* JavaScript values.  Strings are TLA+ strings; undefined is a value of   *)
(* its own that no string of the model equals.                             *)

Undefined == "<undefined>"

\* ToBoolean of a string or undefined: "" and undefined are falsy.
Truthy(v) == v # Undefined /\ v # ""

\* a || b
OrElse(a, b) == IF Truthy(a) THEN a ELSE b

PLACEHOLDER == "YOUR_MODEL_ID_HERE"

\* env.js: the config object, from process.env.
LoadConfig(env) ==
    [ model           |-> OrElse(env.LMSTUDIO_MODEL, PLACEHOLDER),
      startCommand    |-> env.LMSTUDIO_START_COMMAND,
      loadModel       |-> env.LMSTUDIO_LOAD_MODEL # "false",
      gpu             |-> OrElse(env.LMSTUDIO_GPU, "auto"),
      contextLength   |-> env.LMSTUDIO_CONTEXT_LENGTH,
      modelIdentifier |-> env.LMSTUDIO_MODEL_IDENTIFIER ]

----------------------------------------------------------------------------
(* String.prototype.toLowerCase, parseFloat and Number-to-string, as       *)
(* loadModelWithCLI uses them on config.lmstudio.gpu (346, 351, 353).      *)

\* The characters i..j of s that exist (positions from 1).
Slice(s, i, j) ==
    IF i < 1 \/ i > j \/ i > Len(s) THEN ""
    ELSE SubSeq(s, i, IF j > Len(s) THEN Len(s) ELSE j)

CharAt(s, i) == Slice(s, i, i)

From(s, i) == Slice(s, i, Len(s))

UpperCase == "ABCDEFGHIJKLMNOPQRSTUVWXYZ"

LowerCase == "abcdefghijklmnopqrstuvwxyz"

LowerChar(c) ==
    IF \E i \in 1..Len(UpperCase) : CharAt(UpperCase, i) = c
    THEN CharAt(LowerCase, CHOOSE i \in 1..Len(UpperCase) : CharAt(UpperCase, i) = c)
    ELSE c

RECURSIVE ToLowerCase(_)
ToLowerCase(s) ==
    IF s = "" THEN "" ELSE LowerChar(CharAt(s, 1)) \o ToLowerCase(From(s, 2))

Digits == "0123456789"

IsDigit(c) == \E i \in 1..Len(Digits) : CharAt(Digits, i) = c

DigitVal(c) == (CHOOSE i \in 1..Len(Digits) : CharAt(Digits, i) = c) - 1

DigitStr(n) == CharAt(Digits, n + 1)

RECURSIVE NatToStr(_)
NatToStr(n) == IF n < 10 THEN DigitStr(n) ELSE NatToStr(n \div 10) \o DigitStr(n % 10)

RECURSIVE Pow10(_)
Pow10(k) == IF k = 0 THEN 1 ELSE 10 * Pow10(k - 1)

\* The number of digits s holds from position i on.
RECURSIVE DigitRun(_, _)
DigitRun(s, i) ==
    IF i <= Len(s) /\ IsDigit(CharAt(s, i)) THEN 1 + DigitRun(s, i + 1) ELSE 0

\* The value of the n digits of s from position i on.
RECURSIVE DigitsVal(_, _, _)
DigitsVal(s, i, n) ==
    IF n = 0 THEN 0 ELSE 10 * DigitsVal(s, i, n - 1) + DigitVal(CharAt(s, i + n - 1))

\* The number of white-space characters s starts with.
RECURSIVE LeadingSpaces(_)
LeadingSpaces(s) ==
    IF s # "" /\ CharAt(s, 1) \in {" ", "\t", "\n"} THEN 1 + LeadingSpaces(From(s, 2)) ELSE 0

\* The number of white-space characters s ends with.
RECURSIVE TrailingSpaces(_)
TrailingSpaces(s) ==
    IF s # "" /\ CharAt(s, Len(s)) \in {" ", "\t", "\n"}
    THEN 1 + TrailingSpaces(Slice(s, 1, Len(s) - 1)) ELSE 0

\* String.prototype.trim
Trim(s) ==
    IF LeadingSpaces(s) = Len(s) THEN ""
    ELSE Slice(s, LeadingSpaces(s) + 1, Len(s) - TrailingSpaces(s))

NaN == [nan |-> TRUE, inf |-> FALSE, neg |-> FALSE, num |-> 0, den |-> 1]

\* parseFloat: the longest prefix of the trimmed string that is a decimal
\* literal ([+-] Infinity | digits[.digits][e[+-]digits] | .digits[...]), as
\* the number (-1)^neg * num / den; NaN when there is none.
ParseFloat(str) ==
    LET s    == From(str, LeadingSpaces(str) + 1)
        sgn  == IF s # "" /\ CharAt(s, 1) \in {"+", "-"} THEN 1 ELSE 0
        neg  == sgn = 1 /\ CharAt(s, 1) = "-"
        i    == sgn + 1
        ni   == DigitRun(s, i)
        dot  == i + ni <= Len(s) /\ CharAt(s, i + ni) = "."
        nf   == IF dot THEN DigitRun(s, i + ni + 1) ELSE 0
        p    == i + ni + (IF dot THEN 1 + nf ELSE 0)
        isE  == p <= Len(s) /\ CharAt(s, p) \in {"e", "E"}
        esgn == IF isE /\ p + 1 <= Len(s) /\ CharAt(s, p + 1) \in {"+", "-"} THEN 1 ELSE 0
        ne   == IF isE THEN DigitRun(s, p + 1 + esgn) ELSE 0
        e    == DigitsVal(s, p + 1 + esgn, ne)
        eneg == esgn = 1 /\ CharAt(s, p + 1) = "-"
        m    == DigitsVal(s, i, ni) * Pow10(nf) + DigitsVal(s, i + ni + 1, nf)
    IN  IF Slice(s, i, i + 7) = "Infinity"
        THEN [nan |-> FALSE, inf |-> TRUE, neg |-> neg, num |-> 0, den |-> 1]
        ELSE IF ni + nf = 0 THEN NaN
        ELSE [nan |-> FALSE, inf |-> FALSE, neg |-> neg,
              num |-> IF eneg THEN m ELSE m * Pow10(e),
              den |-> IF eneg THEN Pow10(nf) * Pow10(e) ELSE Pow10(nf)]

\* numValue >= 0.0 && numValue <= 1.0 (352); -0 >= 0 holds, NaN compares false.
InUnitInterval(v) ==
    ~v.nan /\ ~v.inf /\ (v.num = 0 \/ (~v.neg /\ v.num <= v.den))

\* num / den with the trailing zeros of the fraction removed.
RECURSIVE Reduce(_, _)
Reduce(num, den) ==
    IF den > 1 /\ num % 10 = 0 THEN Reduce(num \div 10, den \div 10) ELSE <<num, den>>

RECURSIVE Log10(_)
Log10(d) == IF d <= 1 THEN 0 ELSE 1 + Log10(d \div 10)

RECURSIVE Zeros(_)
Zeros(k) == IF k <= 0 THEN "" ELSE "0" \o Zeros(k - 1)

\* `${numValue}` for a number of [0, 1]: Number::toString, decimal notation
\* down to 1e-6 and exponent notation below.
NumberToString(v) ==
    LET r == Reduce(v.num, v.den)
        n == r[1]
        k == Log10(r[2])
        d == NatToStr(n)
        x == k - Len(d) + 1
    IN  IF n = 0 THEN "0"
        ELSE IF k = 0 THEN d
        ELSE IF n >= r[2] THEN Slice(d, 1, Len(d) - k) \o "." \o From(d, Len(d) - k + 1)
        ELSE IF x <= 6 THEN "0." \o Zeros(k - Len(d)) \o d
        ELSE CharAt(d, 1) \o (IF Len(d) > 1 THEN "." \o From(d, 2) ELSE "")
             \o "e-" \o NatToStr(x)

\* String.prototype.includes
Includes(hay, needle) ==
    \E i \in 1..(Len(hay) - Len(needle) + 1) : Slice(hay, i, i + Len(needle) - 1) = needle

----------------------------------------------------------------------------
(* What the environment decides.                                           *)

\* How a spawnSync call ends: the child exits 0 or not, is killed (at the
\* timeout, by a signal) or cannot be started (status null), or the call
\* itself throws.
SpawnSyncOutcomes == {"exit0", "exit1", "killed", "enoent", "throw"}

\* result.status === 0
StatusIsZero(o) == o = "exit0"

\* How fetch ends: a response with a status, or a rejection (the 2000 ms
\* AbortSignal, a connection error).
FetchOutcomes ==
    [threw : {FALSE}, status : {200, 204, 302, 401, 404, 500}, why : {"response"}]
        \cup [threw : {TRUE}, status : {0}, why : {"timeout", "connection"}]

\* response.ok
ResponseOk(f) == f.status \in 200..299

\* AbortSignal.timeout(2000) (415, 432): the longest a fetch takes, in ms.
FetchTimeout == 2000

\* The granularity of the modelled probe durations, in ms.
ProbeStep == 1000

\* How long one checkLMStudioAccessible call takes, in ms: the time of its
\* fetch (the helper tool's calls before it, each cut at 2000 ms, could only
\* add to it).
ProbeDurations == { k * ProbeStep : k \in 0..(FetchTimeout \div ProbeStep) }

\* How a detached spawn(...) call ends.
SpawnOutcomes == {"ok", "throw"}

\* The stdout of `lms ps`.
PsOutputs == {"", "qwen3-coder", "other", "coder-id"}

\* The timeout option of the `lms version` spawnSync, in ms.
DetectTimeout == 2000

\* What starting the child does: it starts, the executable is missing, it
\* cannot be executed, or spawnSync itself throws.
SpawnResults == {"ok", "enoent", "eacces", "throw"}

\* The exit code the child would end with and the time it would take, in ms.
ExitCodes == {0, 1, 2, 126, 127, 255}
RunTimes == {0, 1000, 1999, 2001, 5000}

CliRuns == [spawn : SpawnResults, code : ExitCodes, ms : RunTimes]

\* spawnSync with a timeout option: the call throws, or reports a child that
\* could not be started or was killed at the timeout (status null), or the
\* child's own exit code.
SpawnSyncResult(run, timeout) ==
    CASE run.spawn = "throw" -> "throw"
      [] run.spawn \in {"enoent", "eacces"} -> "enoent"
      [] run.spawn = "ok" /\ run.ms >= timeout -> "killed"
      [] run.spawn = "ok" /\ run.ms < timeout /\ run.code = 0 -> "exit0"
      [] OTHER -> "exit1"

\* How long the `lms version` call of this run takes, in ms: nothing when the
\* program cannot be started (or when no such child is under study), and no
\* more than the timeout.
DetectTime ==
    IF cliRun.spawn = "ok"
    THEN (IF cliRun.ms < DetectTimeout THEN cliRun.ms ELSE DetectTimeout)
    ELSE 0

----------------------------------------------------------------------------
(* The helpers of services/lmstudio.js.                                    *)

\* Faulty variant: any exit of the child counts as available.
isLMSCLIAvailableAnyExit(o) == IF o = "throw" THEN FALSE ELSE o \in {"exit0", "exit1"}

\* isLMSCLIAvailable, given how `lms version` ended.
isLMSCLIAvailable(o) == IF o = "throw" THEN FALSE ELSE StatusIsZero(o)

\* checkServerStatusWithCLI, given how `lms server status` ended.
checkServerStatusWithCLI(o) == IF o = "throw" THEN FALSE ELSE StatusIsZero(o)

\* The try { fetch } catch { return false } block (408-420, 425-437).
TryFetch(f) == IF f.threw THEN FALSE ELSE ResponseOk(f)

\* checkLMStudioAccessible of the version without the helper tool
\* (unnamed/part_001 9-25), given how the fetch ended.
checkLMStudioAccessibleV1(f) == TryFetch(f)

\* Faulty variant: a server that `lms server status` reports as running is
\* taken as reachable without asking the API.
checkLMStudioAccessibleTrustsCLI(version, status, f) ==
    IF isLMSCLIAvailable(version)
    THEN IF checkServerStatusWithCLI(status) THEN TRUE ELSE TryFetch(f)
    ELSE TryFetch(f)

\* checkLMStudioAccessible, given how `lms version`, `lms server status` and
\* the fetch ended.
checkLMStudioAccessible(version, status, f) ==
    IF isLMSCLIAvailable(version)
    THEN IF checkServerStatusWithCLI(status) THEN TryFetch(f) ELSE TryFetch(f)
    ELSE TryFetch(f)

\* The values a probe can return.
ProbeResults ==
    { checkLMStudioAccessible(v, st, f) :
        v \in SpawnSyncOutcomes, st \in SpawnSyncOutcomes, f \in FetchOutcomes }

\* The values isLMSCLIAvailable can return.
CLIResults == { isLMSCLIAvailable(o) : o \in SpawnSyncOutcomes }

\* Faulty variant: the exit status of `lms ps` is not looked at.
isModelLoadedIgnoresStatus(cfg, modelId, o, stdout) ==
    IF o = "throw" THEN FALSE
    ELSE Includes(stdout, modelId)
            \/ Includes(stdout, OrElse(cfg.modelIdentifier, modelId))

\* isModelLoaded, given how `lms ps` ended and what it printed.
isModelLoaded(cfg, modelId, o, stdout) ==
    IF o = "throw" THEN FALSE
    ELSE IF ~StatusIsZero(o) THEN FALSE
    ELSE Includes(stdout, modelId)
            \/ Includes(stdout, OrElse(cfg.modelIdentifier, modelId))

\* Faulty variant: the range check of the parsed number is missing.
GpuArgsNoRangeCheck(cfg) ==
    IF Truthy(cfg.gpu) /\ cfg.gpu # "auto"
    THEN IF ToLowerCase(cfg.gpu) = "max" THEN <<"--gpu=max">>
         ELSE IF ~ParseFloat(cfg.gpu).nan /\ ~ParseFloat(cfg.gpu).inf
                    /\ ~ParseFloat(cfg.gpu).neg
              THEN <<"--gpu=" \o NumberToString(ParseFloat(cfg.gpu))>>
              ELSE <<>>
    ELSE <<>>

\* The --gpu part of loadModelWithCLI's argument list (344-358).
GpuArgs(cfg) ==
    IF Truthy(cfg.gpu) /\ cfg.gpu # "auto"
    THEN IF ToLowerCase(cfg.gpu) = "max" THEN <<"--gpu=max">>
         ELSE IF InUnitInterval(ParseFloat(cfg.gpu))
              THEN <<"--gpu=" \o NumberToString(ParseFloat(cfg.gpu))>>
              ELSE <<>>
    ELSE <<>>

\* Whether loadModelWithCLI warns of an invalid GPU value (355).
GpuWarns(cfg) ==
    /\ Truthy(cfg.gpu) /\ cfg.gpu # "auto"
    /\ ToLowerCase(cfg.gpu) # "max"
    /\ ~InUnitInterval(ParseFloat(cfg.gpu))

\* Faulty variant: the identifier is passed only along with a context length.
LoadArgsIdentifierNeedsContext(cfg, modelId) ==
    <<"load", modelId>>
        \o GpuArgs(cfg)
        \o (IF Truthy(cfg.contextLength)
            THEN <<"--context-length=" \o cfg.contextLength>>
                    \o (IF Truthy(cfg.modelIdentifier)
                        THEN <<"--identifier=" \o cfg.modelIdentifier>> ELSE <<>>)
            ELSE <<>>)

\* loadModelWithCLI's argument list (340-368).
LoadArgs(cfg, modelId) ==
    <<"load", modelId>>
        \o GpuArgs(cfg)
        \o (IF Truthy(cfg.contextLength)
            THEN <<"--context-length=" \o cfg.contextLength>> ELSE <<>>)
        \o (IF Truthy(cfg.modelIdentifier)
            THEN <<"--identifier=" \o cfg.modelIdentifier>> ELSE <<>>)

\* Faulty variant: the model id is not looked at.
LoadStageEnabledAnyModel(cfg) == cfg.loadModel

\* The condition of the model-load stage (569).
LoadStageEnabled(cfg) ==
    cfg.loadModel /\ Truthy(cfg.model) /\ cfg.model # PLACEHOLDER

\* Faulty variant: only "false" disables the auto-start.
AutoStartDisabledOnlyFalse(cmd) == cmd = "false"

\* startCommand === "false" || startCommand === "0" (547)
AutoStartDisabled(cmd) == cmd = "false" \/ cmd = "0"

\* waitForLMStudio's default parameters (516).
DefaultMaxWaitTime == 30000

DefaultCheckInterval == 1000

----------------------------------------------------------------------------
(* The states a call starts in.                                            *)

\* process.env, as far as env.js reads it.
Envs(models, commands, loads, gpus, lengths, identifiers) ==
    [ LMSTUDIO_MODEL            : models,
      LMSTUDIO_START_COMMAND    : commands,
      LMSTUDIO_LOAD_MODEL       : loads,
      LMSTUDIO_GPU              : gpus,
      LMSTUDIO_CONTEXT_LENGTH   : lengths,
      LMSTUDIO_MODEL_IDENTIFIER : identifiers ]

Platforms == {"darwin", "win32", "linux"}

\* The environments ensureLMStudioRunning is run in.
EnsureEnvs ==
    Envs({Undefined, "", "qwen3"},
         {Undefined, "", "false", "0", "lmstudio --headless"},
         {Undefined, "false"},
         {Undefined},
         {Undefined},
         {Undefined, "coder-id"})

\* No single probe is under study.
NoProbe == [impl |-> "none", version |-> "", status |-> "", fetch |-> [threw |-> FALSE, status |-> 0, why |-> ""]]

\* `lms ps` has not been run.
NoPs == [outcome |-> "", stdout |-> ""]

\* No `lms version` child is under study.
NoCliRun == [spawn |-> "", code |-> 0, ms |-> 0]

\* promptConfirmation has not been called.
NoPrompt == [timer |-> "none", listeners |-> 0, paused |-> FALSE, resolves |-> <<>>, late |-> <<>>]

\* The version without the helper tool is not run.
NoV1 == [pc |-> "none"]

\* The functions studied on their own are not under study.
NoCalls == cliRun = NoCliRun /\ prompt = NoPrompt /\ v1 = NoV1

\* The locals of a main that has not run yet.
MainFresh ==
    /\ diff = Undefined
    /\ commitMsg = Undefined
    /\ answer = Undefined
    /\ confirmed = FALSE
    /\ commits = <<>>
    /\ mainError = ""
    /\ exitCode = -1

\* main is not running: the function is called on its own.
NoMain ==
    /\ mainPc = "none"
    /\ argv = {}
    /\ isTTY = FALSE
    /\ MainFresh

\* The locals and counters of a call that has not run yet.
Fresh ==
    /\ error = "none"
    /\ startCommand = Undefined
    /\ wasAlreadyRunning = FALSE
    /\ accessible = FALSE
    /\ isReady = FALSE
    /\ elapsed = 0
    /\ probes = 0
    /\ attempts = 0
    /\ sleeps = 0
    /\ launches = <<>>
    /\ hasCLI = FALSE
    /\ psCalls = 0
    /\ loadCalls = 0
    /\ args = <<>>
    /\ loadError = ""
    /\ console = {}
    /\ startHasCLI = FALSE
    /\ psResult = NoPs

\* A call of ensureLMStudioRunning(baseURL).
Init ==
    /\ \E env \in EnsureEnvs : config = LoadConfig(env)
    /\ platform \in Platforms
    /\ pc = "ensure_check"
    /\ maxWaitTime = 0
    /\ checkInterval = 0
    /\ Fresh
    /\ NoCalls
    /\ probeIn = NoProbe
    /\ NoMain

----------------------------------------------------------------------------
(* ensureLMStudioRunning (538-590).                                        *)

\* Faulty variant: the disabling sentinel is looked at before the result of
\* the initial probe.
EnsureCheckSentinelFirst ==
    /\ pc = "ensure_check"
    /\ \E r \in ProbeResults :
        /\ accessible' = r
        /\ wasAlreadyRunning' = r
        /\ pc' = IF AutoStartDisabled(config.startCommand) THEN "raised"
                 ELSE IF r THEN "load_stage" ELSE "not_running"
    /\ error' = IF AutoStartDisabled(config.startCommand) THEN "Disabled" ELSE error
    /\ probes' = probes + 1
    /\ UNCHANGED <<mainVars, callVars, psResult, probeIn, startHasCLI, config, platform, startCommand,
                   isReady, maxWaitTime, checkInterval, elapsed, attempts, sleeps,
                   launches, hasCLI, psCalls, loadCalls, args, loadError, console>>

\* 541-545, 564-566: the initial probe.
EnsureCheck ==
    /\ pc = "ensure_check"
    /\ \E r \in ProbeResults :
        /\ accessible' = r
        /\ wasAlreadyRunning' = r
        /\ pc' = IF r THEN "load_stage" ELSE "not_running"
    /\ probes' = probes + 1
    /\ UNCHANGED <<mainVars, callVars, psResult, probeIn, startHasCLI, config, platform, error, startCommand, isReady, maxWaitTime,
                   checkInterval, elapsed, attempts, sleeps, launches, hasCLI,
                   psCalls, loadCalls, args, loadError, console>>

\* 546-554: the disabling sentinel raises, anything else calls startLMStudio.
EnsureNotRunning ==
    /\ pc = "not_running"
    /\ IF AutoStartDisabled(config.startCommand)
       THEN /\ error' = "Disabled"
            /\ pc' = "raised"
            /\ UNCHANGED startCommand
       ELSE /\ startCommand' = config.startCommand
            /\ pc' = "start_entry"
            /\ UNCHANGED error
    /\ UNCHANGED <<mainVars, callVars, psResult, probeIn, startHasCLI, config, platform, wasAlreadyRunning, accessible, isReady,
                   maxWaitTime, checkInterval, elapsed, probes, attempts, sleeps,
                   launches, hasCLI, psCalls, loadCalls, args, loadError, console>>

----------------------------------------------------------------------------
(* startLMStudio (446-507).                                                *)

\* Faulty variant: the helper tool is asked for first, whatever the command is.
StartDetectHelperFirst ==
    /\ pc = "start_entry"
    /\ \E cli \in CLIResults :
        /\ startHasCLI' = cli
        /\ pc' = IF cli THEN "start_cli"
                 ELSE IF Truthy(startCommand) THEN "start_shell" ELSE "start_gui"
    /\ UNCHANGED <<mainVars, callVars, psResult, probeIn, config, platform, error, startCommand,
                   wasAlreadyRunning, accessible, isReady, maxWaitTime,
                   checkInterval, elapsed, probes, attempts, sleeps, launches,
                   hasCLI, psCalls, loadCalls, args, loadError, console>>

\* 448-450, 470: without a custom command, ask for the helper tool.
StartDetect ==
    /\ pc = "start_entry"
    /\ IF ~Truthy(startCommand)
       THEN \E cli \in CLIResults :
                /\ startHasCLI' = cli
                /\ pc' = IF cli THEN "start_cli" ELSE "start_gui"
       ELSE pc' = "start_shell" /\ UNCHANGED startHasCLI
    /\ UNCHANGED <<mainVars, callVars, psResult, probeIn, config, platform, error, startCommand, wasAlreadyRunning,
                   accessible, isReady, maxWaitTime, checkInterval, elapsed, probes,
                   attempts, sleeps, launches, hasCLI, psCalls, loadCalls, args,
                   loadError, console>>

\* Faulty variant: the `return` after a successful `lms server start` is missing, so
\* the platform default is launched as well.
StartCLIFallsThrough ==
    /\ pc = "start_cli"
    /\ \/ \E o \in SpawnSyncOutcomes :
            /\ launches' = Append(launches,
                    [cmd |-> "lms server start", via |-> "spawnSync",
                     ok |-> o # "throw" /\ StatusIsZero(o)])
            /\ pc' = "start_gui"
       \/ /\ launches' = Append(launches,
                    [cmd |-> "lms server start", via |-> "spawnSync", ok |-> FALSE])
          /\ pc' = "start_blocked"
    /\ UNCHANGED <<mainVars, callVars, psResult, probeIn, startHasCLI, config, platform, error, startCommand, wasAlreadyRunning,
                   accessible, isReady, maxWaitTime, checkInterval, elapsed, probes,
                   attempts, sleeps, hasCLI, psCalls, loadCalls, args, loadError,
                   console>>

\* Faulty variant: a failed `lms server start` raises instead of falling back.
StartCLIRaisesOnFailure ==
    /\ pc = "start_cli"
    /\ \/ \E o \in SpawnSyncOutcomes :
            /\ launches' = Append(launches,
                    [cmd |-> "lms server start", via |-> "spawnSync",
                     ok |-> o # "throw" /\ StatusIsZero(o)])
            /\ pc' = IF o # "throw" /\ StatusIsZero(o) THEN "start_return" ELSE "raised"
            /\ error' = IF o # "throw" /\ StatusIsZero(o) THEN error ELSE "LaunchFailed"
       \/ /\ launches' = Append(launches,
                    [cmd |-> "lms server start", via |-> "spawnSync", ok |-> FALSE])
          /\ pc' = "start_blocked"
          /\ UNCHANGED error
    /\ UNCHANGED <<mainVars, callVars, psResult, probeIn, startHasCLI, config, platform, startCommand, wasAlreadyRunning,
                   accessible, isReady, maxWaitTime, checkInterval, elapsed, probes,
                   attempts, sleeps, hasCLI, psCalls, loadCalls, args, loadError,
                   console>>

\* 451-469: spawnSync("lms", ["server", "start"]), with no timeout option: the
\* call returns when the child exits, and blocks as long as it does not.
StartCLI ==
    /\ pc = "start_cli"
    /\ \/ \E o \in SpawnSyncOutcomes :
            /\ launches' = Append(launches,
                    [cmd |-> "lms server start", via |-> "spawnSync",
                     ok |-> o # "throw" /\ StatusIsZero(o)])
            /\ pc' = IF o # "throw" /\ StatusIsZero(o) THEN "start_return" ELSE "start_gui"
       \/ /\ launches' = Append(launches,
                    [cmd |-> "lms server start", via |-> "spawnSync", ok |-> FALSE])
          /\ pc' = "start_blocked"
    /\ UNCHANGED <<mainVars, callVars, psResult, probeIn, startHasCLI, config, platform, error, startCommand, wasAlreadyRunning,
                   accessible, isReady, maxWaitTime, checkInterval, elapsed, probes,
                   attempts, sleeps, hasCLI, psCalls, loadCalls, args, loadError,
                   console>>

\* Faulty variant: the bare application name is used on Windows as well.
StartGUIBareNameOnWindows ==
    /\ pc = "start_gui"
    /\ IF platform = "darwin"
       THEN \E o \in SpawnOutcomes :
                /\ launches' = Append(launches,
                        [cmd |-> "open -a LM Studio", via |-> "spawn", ok |-> o = "ok"])
                /\ pc' = IF o = "ok" THEN "start_return" ELSE "raised"
                /\ error' = IF o = "ok" THEN error ELSE "LaunchFailed"
                /\ UNCHANGED startCommand
       ELSE /\ startCommand' = "lmstudio"
            /\ pc' = "start_shell"
            /\ UNCHANGED <<launches, error>>
    /\ UNCHANGED <<mainVars, callVars, psResult, probeIn, startHasCLI, config, platform,
                   wasAlreadyRunning, accessible, isReady, maxWaitTime,
                   checkInterval, elapsed, probes, attempts, sleeps, hasCLI,
                   psCalls, loadCalls, args, loadError, console>>

\* 472-490: the platform default.
StartGUI ==
    /\ pc = "start_gui"
    /\ IF platform = "darwin"
       THEN \E o \in SpawnOutcomes :
                /\ launches' = Append(launches,
                        [cmd |-> "open -a LM Studio", via |-> "spawn", ok |-> o = "ok"])
                /\ pc' = IF o = "ok" THEN "start_return" ELSE "raised"
                /\ error' = IF o = "ok" THEN error ELSE "LaunchFailed"
                /\ UNCHANGED startCommand
       ELSE /\ startCommand' = IF platform = "win32" THEN "start lmstudio" ELSE "lmstudio"
            /\ pc' = "start_shell"
            /\ UNCHANGED <<launches, error>>
    /\ UNCHANGED <<mainVars, callVars, psResult, probeIn, startHasCLI, config, platform, wasAlreadyRunning, accessible, isReady,
                   maxWaitTime, checkInterval, elapsed, probes, attempts, sleeps,
                   hasCLI, psCalls, loadCalls, args, loadError, console>>

\* Faulty variant: an error of the shell spawn is swallowed.
StartShellIgnoresSpawnError ==
    /\ pc = "start_shell"
    /\ IF Truthy(startCommand)
       THEN \E o \in SpawnOutcomes :
                launches' = Append(launches,
                        [cmd |-> startCommand, via |-> "shell", ok |-> o = "ok"])
       ELSE UNCHANGED launches
    /\ pc' = "start_return"
    /\ UNCHANGED <<mainVars, callVars, psResult, probeIn, startHasCLI, config, platform, error,
                   startCommand, wasAlreadyRunning, accessible, isReady,
                   maxWaitTime, checkInterval, elapsed, probes, attempts, sleeps,
                   hasCLI, psCalls, loadCalls, args, loadError, console>>

\* 492-506: the custom command, or the default of the other platforms, through
\* a shell.
StartShell ==
    /\ pc = "start_shell"
    /\ IF Truthy(startCommand)
       THEN \E o \in SpawnOutcomes :
                /\ launches' = Append(launches,
                        [cmd |-> startCommand, via |-> "shell", ok |-> o = "ok"])
                /\ pc' = IF o = "ok" THEN "start_return" ELSE "raised"
                /\ error' = IF o = "ok" THEN error ELSE "LaunchFailed"
       ELSE /\ pc' = "start_return"
            /\ UNCHANGED <<launches, error>>
    /\ UNCHANGED <<mainVars, callVars, psResult, probeIn, startHasCLI, config, platform, startCommand, wasAlreadyRunning, accessible,
                   isReady, maxWaitTime, checkInterval, elapsed, probes, attempts,
                   sleeps, hasCLI, psCalls, loadCalls, args, loadError, console>>

\* Faulty variant: a successful `lms server start` is trusted and the poll is
\* skipped.
EnsureWaitTrustsLauncher ==
    /\ pc = "start_return"
    /\ IF launches[Len(launches)].cmd = "lms server start"
       THEN /\ pc' = "load_stage"
            /\ UNCHANGED <<maxWaitTime, checkInterval, elapsed>>
       ELSE /\ maxWaitTime' = DefaultMaxWaitTime
            /\ checkInterval' = DefaultCheckInterval
            /\ elapsed' = 0
            /\ pc' = "wait_check"
    /\ UNCHANGED <<mainVars, callVars, psResult, probeIn, startHasCLI, config, platform, error,
                   startCommand, wasAlreadyRunning, accessible, isReady, probes,
                   attempts, sleeps, launches, hasCLI, psCalls, loadCalls, args,
                   loadError, console>>

\* 555, 516-518: ensureLMStudioRunning calls waitForLMStudio(baseURL).
EnsureWait ==
    /\ pc = "start_return"
    /\ maxWaitTime' = DefaultMaxWaitTime
    /\ checkInterval' = DefaultCheckInterval
    /\ elapsed' = 0
    /\ pc' = "wait_check"
    /\ UNCHANGED <<mainVars, callVars, psResult, probeIn, startHasCLI, config, platform, error, startCommand, wasAlreadyRunning,
                   accessible, isReady, probes, attempts, sleeps, launches, hasCLI,
                   psCalls, loadCalls, args, loadError, console>>

----------------------------------------------------------------------------
(* waitForLMStudio (516-531).                                              *)

\* Faulty variant: the loop gives up one interval early.
WaitLoopConditionShort == elapsed + checkInterval < maxWaitTime

\* Date.now() - startTime < maxWaitTime (520)
WaitLoopCondition == elapsed < maxWaitTime

\* Faulty variant: the `return true` is missing, so the loop sleeps and goes on after
\* a successful probe.
WaitProbeKeepsPolling ==
    /\ pc = "wait_check"
    /\ WaitLoopCondition
    /\ \E r \in ProbeResults, d \in ProbeDurations :
        /\ accessible' = r
        /\ elapsed' = elapsed + d
        /\ isReady' = r
        /\ pc' = "wait_sleep"
    /\ probes' = probes + 1
    /\ attempts' = attempts + 1
    /\ UNCHANGED <<mainVars, callVars, psResult, probeIn, startHasCLI, config, platform, error, startCommand, wasAlreadyRunning,
                   maxWaitTime, checkInterval, sleeps, launches, hasCLI, psCalls,
                   loadCalls, args, loadError, console>>

\* Faulty variant: a failed probe is followed by the next one at once.
WaitProbeBusySpins ==
    /\ pc = "wait_check"
    /\ WaitLoopCondition
    /\ \E r \in ProbeResults, d \in ProbeDurations :
        /\ accessible' = r
        /\ elapsed' = elapsed + d
        /\ isReady' = r
        /\ pc' = IF r THEN "wait_return" ELSE "wait_check"
    /\ probes' = probes + 1
    /\ attempts' = attempts + 1
    /\ UNCHANGED <<mainVars, callVars, psResult, probeIn, startHasCLI, config,
                   platform, error, startCommand, wasAlreadyRunning, maxWaitTime,
                   checkInterval, sleeps, launches, hasCLI, psCalls, loadCalls,
                   args, loadError, console>>

\* 520-524: the loop condition holds and the probe runs.
WaitProbe ==
    /\ pc = "wait_check"
    /\ WaitLoopCondition
    /\ \E r \in ProbeResults, d \in ProbeDurations :
        /\ accessible' = r
        /\ elapsed' = elapsed + DetectTime + d
        /\ isReady' = r
        /\ pc' = IF r THEN "wait_return" ELSE "wait_sleep"
    /\ probes' = probes + 1
    /\ attempts' = attempts + 1
    /\ UNCHANGED <<mainVars, callVars, psResult, probeIn, startHasCLI, config, platform, error, startCommand, wasAlreadyRunning,
                   maxWaitTime, checkInterval, sleeps, launches, hasCLI, psCalls,
                   loadCalls, args, loadError, console>>

\* 525-526: the sleep of one interval after a failed probe.
WaitSleep ==
    /\ pc = "wait_sleep"
    /\ elapsed' = elapsed + checkInterval
    /\ sleeps' = sleeps + 1
    /\ pc' = "wait_check"
    /\ UNCHANGED <<mainVars, callVars, psResult, probeIn, startHasCLI, config, platform, error, startCommand, wasAlreadyRunning,
                   accessible, isReady, maxWaitTime, checkInterval, probes, attempts,
                   launches, hasCLI, psCalls, loadCalls, args, loadError, console>>

\* Faulty variant: the poll reports success when the time is up.
WaitTimeoutReturnsTrue ==
    /\ pc = "wait_check"
    /\ ~WaitLoopCondition
    /\ isReady' = TRUE
    /\ pc' = "wait_return"
    /\ UNCHANGED <<mainVars, callVars, psResult, probeIn, startHasCLI, config,
                   platform, error, startCommand, wasAlreadyRunning, accessible,
                   maxWaitTime, checkInterval, elapsed, probes, attempts, sleeps,
                   launches, hasCLI, psCalls, loadCalls, args, loadError, console>>

\* 520, 529-530: the loop condition fails.
WaitTimeout ==
    /\ pc = "wait_check"
    /\ ~WaitLoopCondition
    /\ isReady' = FALSE
    /\ pc' = "wait_return"
    /\ UNCHANGED <<mainVars, callVars, psResult, probeIn, startHasCLI, config, platform, error, startCommand, wasAlreadyRunning,
                   accessible, maxWaitTime, checkInterval, elapsed, probes, attempts,
                   sleeps, launches, hasCLI, psCalls, loadCalls, args, loadError,
                   console>>

\* Faulty variant: the result of the poll is ignored.
EnsureAfterWaitIgnoresResult ==
    /\ pc = "wait_return"
    /\ pc' = "load_stage"
    /\ elapsed' = 0
    /\ UNCHANGED <<mainVars, callVars, psResult, probeIn, startHasCLI, config, platform, error, startCommand, wasAlreadyRunning,
                   accessible, isReady, maxWaitTime, checkInterval, probes, attempts,
                   sleeps, launches, hasCLI, psCalls, loadCalls, args, loadError,
                   console>>

\* Faulty variant: a poll that failed launches again.
EnsureAfterWaitRelaunches ==
    /\ pc = "wait_return"
    /\ pc' = IF ~isReady THEN "start_entry" ELSE "load_stage"
    /\ elapsed' = 0
    /\ UNCHANGED <<mainVars, callVars, psResult, probeIn, startHasCLI, config, platform, error,
                   startCommand, wasAlreadyRunning, accessible, isReady,
                   maxWaitTime, checkInterval, probes, attempts, sleeps, launches,
                   hasCLI, psCalls, loadCalls, args, loadError, console>>

\* 555-563: waitForLMStudio has returned (its startTime is gone with it); a
\* poll that failed raises.
EnsureAfterWait ==
    /\ pc = "wait_return"
    /\ IF ~isReady
       THEN error' = "TimedOut" /\ pc' = "raised"
       ELSE pc' = "load_stage" /\ UNCHANGED error
    /\ elapsed' = 0
    /\ UNCHANGED <<mainVars, callVars, psResult, probeIn, startHasCLI, config, platform, startCommand, wasAlreadyRunning, accessible,
                   isReady, maxWaitTime, checkInterval, probes, attempts, sleeps,
                   launches, hasCLI, psCalls, loadCalls, args, loadError, console>>

----------------------------------------------------------------------------
(* The model-load stage of ensureLMStudioRunning (568-589).                *)

\* 569-570: the stage is entered only with loadModel and a real model id.
EnsureLoadStage ==
    /\ pc = "load_stage"
    /\ IF LoadStageEnabled(config)
       THEN \E cli \in CLIResults : hasCLI' = cli /\ pc' = "load_has_cli"
       ELSE pc' = "done" /\ UNCHANGED hasCLI
    /\ UNCHANGED <<mainVars, callVars, psResult, probeIn, startHasCLI, config, platform, error, startCommand, wasAlreadyRunning,
                   accessible, isReady, maxWaitTime, checkInterval, elapsed, probes,
                   attempts, sleeps, launches, psCalls, loadCalls, args, loadError,
                   console>>

\* Faulty variant: a missing helper tool is an error at the model-load stage.
EnsureLoadBranchRequiresHelper ==
    /\ pc = "load_has_cli"
    /\ IF hasCLI
       THEN /\ psCalls' = psCalls + 1
            /\ \E o \in SpawnSyncOutcomes, out \in PsOutputs :
                psResult' = [outcome |-> o, stdout |-> out]
            /\ pc' = "load_ps"
            /\ UNCHANGED console
            /\ UNCHANGED error
       ELSE /\ pc' = "raised"
            /\ error' = "LoadFailed"
            /\ UNCHANGED <<psCalls, console, psResult>>
    /\ UNCHANGED <<mainVars, callVars, probeIn, startHasCLI, config, platform, startCommand, wasAlreadyRunning,
                   accessible, isReady, maxWaitTime, checkInterval, elapsed, probes,
                   attempts, sleeps, launches, hasCLI, loadCalls, args, loadError>>

\* 571, 316-319, 584-588: the `lms ps` of isModelLoaded with the helper tool, a
\* note without it.
EnsureLoadBranch ==
    /\ pc = "load_has_cli"
    /\ IF hasCLI
       THEN /\ psCalls' = psCalls + 1
            /\ \E o \in SpawnSyncOutcomes, out \in PsOutputs :
                psResult' = [outcome |-> o, stdout |-> out]
            /\ pc' = "load_ps"
            /\ UNCHANGED console
       ELSE /\ pc' = "done"
            /\ console' = console \cup {"cli_unavailable"}
            /\ UNCHANGED <<psCalls, psResult>>
    /\ UNCHANGED <<mainVars, callVars, probeIn, startHasCLI, config, platform, error, startCommand, wasAlreadyRunning,
                   accessible, isReady, maxWaitTime, checkInterval, elapsed, probes,
                   attempts, sleeps, launches, hasCLI, loadCalls, args, loadError>>

\* 321-331, 572-574, 581-583: isModelLoaded returns (its result is gone with
\* it) and the stage loads the model or notes that it is loaded.
EnsureModelLoaded ==
    /\ pc = "load_ps"
    /\ IF isModelLoaded(config, config.model, psResult.outcome, psResult.stdout)
       THEN pc' = "done" /\ console' = console \cup {"already_loaded"}
       ELSE pc' = "load_args" /\ console' = console \cup {"not_loaded"}
    /\ psResult' = NoPs
    /\ UNCHANGED <<mainVars, callVars, probeIn, startHasCLI, config, platform,
                   error, startCommand, wasAlreadyRunning, accessible, isReady,
                   maxWaitTime, checkInterval, elapsed, probes, attempts, sleeps,
                   launches, hasCLI, psCalls, loadCalls, args, loadError>>

----------------------------------------------------------------------------
(* loadModelWithCLI (339-394).                                             *)

\* 340-376: the argument list, and the warning of an invalid GPU value.
LoadBuildArgs ==
    /\ pc = "load_args"
    /\ args' = LoadArgs(config, config.model)
    /\ console' = IF GpuWarns(config) THEN console \cup {"invalid_gpu"} ELSE console
    /\ pc' = "load_spawn"
    /\ UNCHANGED <<mainVars, callVars, psResult, probeIn, startHasCLI, config, platform, error, startCommand, wasAlreadyRunning,
                   accessible, isReady, maxWaitTime, checkInterval, elapsed, probes,
                   attempts, sleeps, launches, hasCLI, psCalls, loadCalls, loadError>>

\* 378-393: spawnSync("lms", args, {timeout: 60000}); anything but exit 0
\* throws "Failed to load model".
LoadSpawn ==
    /\ pc = "load_spawn"
    /\ loadCalls' = loadCalls + 1
    /\ \E o \in SpawnSyncOutcomes :
        loadError' = IF o = "throw" \/ ~StatusIsZero(o) THEN o ELSE ""
    /\ pc' = "load_return"
    /\ UNCHANGED <<mainVars, callVars, psResult, probeIn, startHasCLI, config, platform, error, startCommand, wasAlreadyRunning,
                   accessible, isReady, maxWaitTime, checkInterval, elapsed, probes,
                   attempts, sleeps, launches, hasCLI, psCalls, args, console>>

\* Faulty variant: the try/catch around loadModelWithCLI is missing.
EnsureAfterLoadRethrows ==
    /\ pc = "load_return"
    /\ IF loadError # ""
       THEN error' = "LoadFailed" /\ pc' = "raised"
       ELSE pc' = "done" /\ UNCHANGED error
    /\ UNCHANGED <<mainVars, callVars, psResult, probeIn, startHasCLI, config, platform, startCommand, wasAlreadyRunning,
                   accessible, isReady, maxWaitTime, checkInterval, elapsed, probes,
                   attempts, sleeps, launches, hasCLI, psCalls, loadCalls, args,
                   loadError, console>>

\* 575-580: ensureLMStudioRunning catches what loadModelWithCLI threw.
EnsureAfterLoad ==
    /\ pc = "load_return"
    /\ console' = IF loadError # "" THEN console \cup {"load_failed"} ELSE console
    /\ pc' = "done"
    /\ UNCHANGED <<mainVars, callVars, psResult, probeIn, startHasCLI, config, platform, error, startCommand, wasAlreadyRunning,
                   accessible, isReady, maxWaitTime, checkInterval, elapsed, probes,
                   attempts, sleeps, launches, hasCLI, psCalls, loadCalls, args,
                   loadError>>

----------------------------------------------------------------------------
(* A run of ensureLMStudioRunning.                                         *)

Next ==
    \/ EnsureCheck
    \/ EnsureNotRunning
    \/ StartDetect
    \/ StartCLI
    \/ StartGUI
    \/ StartShell
    \/ EnsureWait
    \/ WaitProbe
    \/ WaitSleep
    \/ WaitTimeout
    \/ EnsureAfterWait
    \/ EnsureLoadStage
    \/ EnsureLoadBranch
    \/ EnsureModelLoaded
    \/ LoadBuildArgs
    \/ LoadSpawn
    \/ EnsureAfterLoad

Spec == Init /\ [][Next]_vars

\* The same run, in which a step that can be taken is taken: an await
\* resumes, a child that exits lets spawnSync return, a timer fires.
SpecLive == Spec /\ WF_vars(Next)

----------------------------------------------------------------------------
(* waitForLMStudio called on its own.                                      *)

\* The <<maxWaitTime, checkInterval>> it is called with.
WaitParams == {<<3000, 1000>>, <<3000, 500>>, <<2000, 1000>>, <<1000, 1000>>}

DefaultEnv ==
    [ LMSTUDIO_MODEL            |-> "qwen3",
      LMSTUDIO_START_COMMAND    |-> Undefined,
      LMSTUDIO_LOAD_MODEL       |-> Undefined,
      LMSTUDIO_GPU              |-> Undefined,
      LMSTUDIO_CONTEXT_LENGTH   |-> Undefined,
      LMSTUDIO_MODEL_IDENTIFIER |-> Undefined ]

\* A call of waitForLMStudio(baseURL, maxWaitTime, checkInterval) (516-518).
InitWait ==
    /\ config = LoadConfig(DefaultEnv)
    /\ platform \in Platforms
    /\ pc = "wait_check"
    /\ \E p \in WaitParams : maxWaitTime = p[1] /\ checkInterval = p[2]
    /\ Fresh
    /\ NoCalls
    /\ probeIn = NoProbe
    /\ NoMain

NextWait == WaitProbe \/ WaitSleep \/ WaitTimeout

SpecWait == InitWait /\ [][NextWait]_vars

----------------------------------------------------------------------------
(* loadModelWithCLI called on its own.                                     *)

\* The values of LMSTUDIO_GPU.
GpuValues ==
    { Undefined, "", "auto", "AUTO", "max", "MAX", "Max", "max ", "maximum",
      "0", "1", "0.5", "0.50", ".5", "0.25", "1.0", "1.5", "2", "-0.1", "-0",
      "5e-1", "0.5abc", " 0.75", "banana", "Infinity", "NaN", "50%" }

LoadEnvs ==
    Envs({"qwen3"}, {Undefined}, {Undefined}, GpuValues,
         {Undefined, "", "0", "4096"}, {Undefined, "", "coder-id"})

\* A call of loadModelWithCLI(config.lmstudio.model) (339).
InitLoad ==
    /\ \E env \in LoadEnvs : config = LoadConfig(env)
    /\ platform = "darwin"
    /\ pc = "load_args"
    /\ maxWaitTime = 0
    /\ checkInterval = 0
    /\ Fresh
    /\ NoCalls
    /\ probeIn = NoProbe
    /\ NoMain

NextLoad == LoadBuildArgs \/ LoadSpawn

SpecLoad == InitLoad /\ [][NextLoad]_vars

----------------------------------------------------------------------------
(* checkLMStudioAccessible called on its own.                              *)

\* The version with the helper tool (index.js 401-438) and the one without
\* (unnamed/part_001 9-25).
ProbeImpls == {"latest", "helperless"}

\* How `lms version`, `lms server status` and the fetch of one probe end.
ProbeInputs ==
    [impl : ProbeImpls, version : SpawnSyncOutcomes, status : SpawnSyncOutcomes,
     fetch : FetchOutcomes]

\* A call of checkLMStudioAccessible(baseURL).
InitProbe ==
    /\ config = LoadConfig(DefaultEnv)
    /\ platform = "darwin"
    /\ pc = "probe_entry"
    /\ maxWaitTime = 0
    /\ checkInterval = 0
    /\ Fresh
    /\ NoCalls
    /\ probeIn \in ProbeInputs
    /\ NoMain

\* The call returns.
Probe ==
    /\ pc = "probe_entry"
    /\ accessible' = IF probeIn.impl = "latest"
                     THEN checkLMStudioAccessible(probeIn.version, probeIn.status,
                                                  probeIn.fetch)
                     ELSE checkLMStudioAccessibleV1(probeIn.fetch)
    /\ probes' = probes + 1
    /\ pc' = "probe_return"
    /\ UNCHANGED <<mainVars, callVars, psResult, probeIn, startHasCLI, config, platform, error,
                   startCommand, wasAlreadyRunning, isReady, maxWaitTime,
                   checkInterval, elapsed, attempts, sleeps, launches, hasCLI,
                   psCalls, loadCalls, args, loadError, console>>

NextProbe == Probe

SpecProbe == InitProbe /\ [][NextProbe]_vars

----------------------------------------------------------------------------
(* main (index.js 9-58), with getStagedDiff, validateConfig,               *)
(* generateCommitMessage, promptConfirmation and executeGitCommit.         *)

Flags == {"--help", "-h", "--no-commit"}

\* How execSync("git diff --cached") ends (git.js 9-17).
DiffOutcomes ==
    [threw : {FALSE}, status : {0}, stdout : {"", "\n", "diff --git a/x b/x\n"}]
        \cup [threw : {TRUE}, status : {128, 1}, stdout : {""}]

\* How client.chat.completions.create ends, and the content of the first
\* choice of the completion (ai.js 38-54).
GenerateOutcomes ==
    [threw : {FALSE}, content : {Undefined, "", " \n", "feat: add x\n"}]
        \cup [threw : {TRUE}, content : {Undefined}]

\* The prompt's timer fired before any input (ui.js 40-44).
PromptTimeout == "<timeout>"

\* The first chunk of stdin.
Answers ==
    { "y\n", "yes\n", " y \n", "Y\n", "YES\n", " Yes \n", "n\n", "no\n", "\n",
      "ye\n", "yy\n", "yes please\n", "oui\n" }

\* Faulty variant: any answer that starts with a "y" confirms.
promptAnswerConfirmsPrefix(data) ==
    data # PromptTimeout /\ CharAt(ToLowerCase(Trim(data)), 1) = "y"

\* What promptConfirmation resolves with for a chunk of stdin (ui.js 54-58)
\* or at the timeout (40-44).
promptAnswerConfirms(data) ==
    data # PromptTimeout
        /\ (ToLowerCase(Trim(data)) = "y" \/ ToLowerCase(Trim(data)) = "yes")

\* Faulty variant: only an empty model id is refused.
validateConfigOnlyEmpty(cfg) == Truthy(cfg.model)

\* validateConfig returns without throwing (env.js 36-44).
validateConfig(cfg) == ~(~Truthy(cfg.model) \/ cfg.model = PLACEHOLDER)

\* The environments main is run in.
MainEnvs ==
    Envs({Undefined, "", PLACEHOLDER, "qwen3"},
         {Undefined, "false", "lmstudio --headless"},
         {Undefined, "false"},
         {Undefined},
         {Undefined},
         {Undefined})

\* A run of the program.
InitMain ==
    /\ \E env \in MainEnvs : config = LoadConfig(env)
    /\ platform \in Platforms
    /\ pc = "idle"
    /\ maxWaitTime = 0
    /\ checkInterval = 0
    /\ Fresh
    /\ NoCalls
    /\ probeIn = NoProbe
    /\ mainPc = "main_help"
    /\ argv \in SUBSET Flags
    /\ isTTY = FALSE
    /\ MainFresh

\* process.exit(code), or the end of main; main().catch reports err (55-58).
Exit(code, err) ==
    /\ mainPc' = "exited"
    /\ exitCode' = code
    /\ mainError' = err

\* 11-13: showHelp prints and exits 0.
MainHelp ==
    /\ mainPc = "main_help"
    /\ IF "--help" \in argv \/ "-h" \in argv
       THEN Exit(0, "")
       ELSE mainPc' = "main_diff" /\ UNCHANGED <<exitCode, mainError>>
    /\ UNCHANGED <<argv, isTTY, diff, commitMsg, answer, confirmed, commits,
                   config, platform, pc, lifecycleVars, callVars>>

\* 15-23: getStagedDiff, and the exit without staged changes.
MainDiff ==
    /\ mainPc = "main_diff"
    /\ \E o \in DiffOutcomes :
        IF o.threw
        THEN /\ Exit(1, IF o.status = 128 THEN "NotAGitRepository" ELSE "GitDiffFailed")
             /\ UNCHANGED diff
        ELSE /\ diff' = Trim(o.stdout)
             /\ IF ~Truthy(Trim(o.stdout))
                THEN Exit(1, "NoStagedChanges")
                ELSE mainPc' = "main_validate" /\ UNCHANGED <<exitCode, mainError>>
    /\ UNCHANGED <<argv, isTTY, commitMsg, answer, confirmed, commits,
                   config, platform, pc, lifecycleVars, callVars>>

\* 26-27: validateConfig.
MainValidate ==
    /\ mainPc = "main_validate"
    /\ IF validateConfig(config)
       THEN mainPc' = "main_ensure" /\ UNCHANGED <<exitCode, mainError>>
       ELSE Exit(1, "ConfigInvalid")
    /\ UNCHANGED <<argv, isTTY, diff, commitMsg, answer, confirmed, commits,
                   config, platform, pc, lifecycleVars, callVars>>

\* 30: ensureLMStudioRunning is called.
MainEnsure ==
    /\ mainPc = "main_ensure"
    /\ pc = "idle"
    /\ pc' = "ensure_check"
    /\ mainPc' = "main_await"
    /\ UNCHANGED <<argv, isTTY, diff, commitMsg, answer, confirmed, commits,
                   mainError, exitCode, config, platform, lifecycleVars, callVars>>

\* 30, 55-58: ensureLMStudioRunning has returned or raised.
MainAfterEnsure ==
    /\ mainPc = "main_await"
    /\ pc \in {"done", "raised"}
    /\ IF pc = "raised"
       THEN Exit(1, error)
       ELSE mainPc' = "main_generate" /\ UNCHANGED <<exitCode, mainError>>
    /\ UNCHANGED <<argv, isTTY, diff, commitMsg, answer, confirmed, commits,
                   config, platform, pc, lifecycleVars, callVars>>

\* 33-36: generateCommitMessage (ai.js 23-57).
MainGenerate ==
    /\ mainPc = "main_generate"
    /\ \E o \in GenerateOutcomes :
        IF o.threw
        THEN Exit(1, "ApiRequestFailed") /\ UNCHANGED commitMsg
        ELSE IF ~Truthy(o.content)
        THEN Exit(1, "InvalidApiResponse") /\ UNCHANGED commitMsg
        ELSE /\ commitMsg' = Trim(o.content)
             /\ mainPc' = "main_no_commit"
             /\ UNCHANGED <<exitCode, mainError>>
    /\ UNCHANGED <<argv, isTTY, diff, answer, confirmed, commits,
                   config, platform, pc, lifecycleVars, callVars>>

\* 39-42: the preview mode.
MainNoCommit ==
    /\ mainPc = "main_no_commit"
    /\ IF "--no-commit" \in argv
       THEN Exit(0, "")
       ELSE mainPc' = "main_prompt" /\ UNCHANGED <<exitCode, mainError>>
    /\ UNCHANGED <<argv, isTTY, diff, commitMsg, answer, confirmed, commits,
                   config, platform, pc, lifecycleVars, callVars>>

\* 44: promptConfirmation (ui.js 32-60).
MainPrompt ==
    /\ mainPc = "main_prompt"
    /\ \E tty \in BOOLEAN :
        /\ isTTY' = tty
        /\ IF ~tty
           THEN confirmed' = FALSE /\ UNCHANGED answer
           ELSE \E data \in Answers \cup {PromptTimeout} :
                    /\ answer' = data
                    /\ confirmed' = promptAnswerConfirms(data)
    /\ mainPc' = "main_confirmed"
    /\ UNCHANGED <<argv, diff, commitMsg, commits, mainError, exitCode,
                   config, platform, pc, lifecycleVars, callVars>>

\* 46-52: executeGitCommit (git.js 25-39) when confirmed.
MainCommit ==
    /\ mainPc = "main_confirmed"
    /\ IF confirmed
       THEN /\ commits' = Append(commits, commitMsg)
            /\ \E o \in SpawnSyncOutcomes :
                IF o # "throw" /\ o # "enoent" /\ StatusIsZero(o)
                THEN Exit(0, "")
                ELSE Exit(1, "GitCommitFailed")
       ELSE Exit(0, "") /\ UNCHANGED commits
    /\ UNCHANGED <<argv, isTTY, diff, commitMsg, answer, confirmed,
                   config, platform, pc, lifecycleVars, callVars>>

NextMain ==
    \/ MainHelp
    \/ MainDiff
    \/ MainValidate
    \/ MainEnsure
    \/ MainAfterEnsure
    \/ MainGenerate
    \/ MainNoCommit
    \/ MainPrompt
    \/ MainCommit
    \/ Next

SpecMain == InitMain /\ [][NextMain]_vars

----------------------------------------------------------------------------
(* Properties of ensureLMStudioRunning.                                    *)

LoadStagePcs == {"load_stage", "load_has_cli", "load_ps", "load_args", "load_spawn", "load_return", "done"}

PollPcs == {"wait_check", "wait_sleep", "wait_return"}

\* C1: when the initial probe fails and the start command is "false" or "0",
\* the call raises the auto-start-disabled error and nothing else happens: no
\* launch of any kind is attempted, the readiness poller never runs and no
\* second probe is made.
C1_DisabledBeforeAnySpawn ==
    (pc # "ensure_check" /\ ~wasAlreadyRunning /\ config.startCommand \in {"false", "0"})
        => /\ pc \in {"not_running", "raised"}
           /\ pc = "raised" => error = "Disabled"
           /\ pc = "not_running" => error = "none"
           /\ launches = <<>>
           /\ attempts = 0 /\ sleeps = 0 /\ maxWaitTime = 0
           /\ probes = 1

C1_Witness ==
    pc = "raised" /\ error = "Disabled" /\ config.startCommand = "0" /\ launches = <<>>

\* The server was unreachable, there is no custom command, the helper tool was
\* not used and the platform default was spawned without error.
C2_Pre ==
    /\ ~wasAlreadyRunning
    /\ config.startCommand \in {Undefined, ""}
    /\ Len(launches) = 1
    /\ launches[1].ok
    /\ launches[1].cmd \in {"open -a LM Studio", "start lmstudio", "lmstudio"}

\* C2: after a platform default launch without the helper tool, as long as no
\* probe of the poll has succeeded the call is launching or polling, the poll
\* returns false only once 30 s have passed, the call then raises the Timeout
\* error, and the model-load stage is never entered.
C2_TimeoutAfterDefaultLaunch ==
    /\ [](C2_Pre /\ ~isReady =>
            /\ pc \in {"start_return", "raised"} \cup PollPcs
            /\ pc = "raised" => error = "TimedOut" /\ attempts >= 1
            /\ pc = "wait_return" => elapsed >= 30000 /\ attempts >= 1
            /\ psCalls = 0 /\ loadCalls = 0 /\ hasCLI = FALSE)
    /\ [][(C2_Pre /\ pc = "wait_return" /\ ~isReady)
            => (pc' = "raised" /\ error' = "TimedOut")]_vars

C2_Witness ==
    C2_Pre /\ pc = "raised" /\ error = "TimedOut" /\ attempts >= 15

\* `lms server start` was the first launch and exited 0.
C3_Pre ==
    /\ ~wasAlreadyRunning
    /\ config.startCommand \in {Undefined, ""}
    /\ Len(launches) >= 1
    /\ launches[1].cmd = "lms server start"
    /\ launches[1].ok

\* C3: when `lms server start` exits 0 nothing else is launched, and when the
\* first probe of the poll then succeeds the call goes on to the model-load
\* stage without sleeping and without raising.
C3_ReadyAfterServerStart ==
    /\ [](C3_Pre =>
            /\ Len(launches) = 1
            /\ pc \notin {"start_cli", "start_gui", "start_shell", "start_blocked"}
            /\ (attempts = 1 /\ isReady) =>
                    /\ pc \in {"wait_return"} \cup LoadStagePcs
                    /\ error = "none"
                    /\ sleeps = 0)
    /\ [][(C3_Pre /\ pc = "wait_return" /\ attempts = 1 /\ isReady)
            => (pc' = "load_stage" /\ error' = "none")]_vars

C3_Witness ==
    C3_Pre /\ attempts = 1 /\ isReady /\ pc = "done" /\ loadCalls = 1

\* C4: when the helper tool is found unavailable at the model-load stage, the
\* next step ends the call successfully with a note: no `lms ps`, no `lms load`,
\* no error, and the server was found reachable before.
C4_SkipLoadWithoutHelper ==
    /\ []((pc = "load_has_cli" /\ ~hasCLI) =>
            /\ psCalls = 0 /\ loadCalls = 0 /\ error = "none"
            /\ wasAlreadyRunning \/ isReady)
    /\ [][(pc = "load_has_cli" /\ ~hasCLI) =>
            /\ pc' = "done"
            /\ psCalls' = 0 /\ loadCalls' = 0 /\ error' = "none"
            /\ "cli_unavailable" \in console']_vars
    /\ [](pc = "done" => error = "none")

C4_Witness ==
    /\ pc = "done" /\ "cli_unavailable" \in console /\ ~hasCLI
    /\ psCalls = 0 /\ loadCalls = 0 /\ isReady

\* C5: whatever made `lms load` fail (a non-zero exit, the timeout, a spawn
\* error, a throw), ensureLMStudioRunning catches it, warns and returns
\* successfully.
C5_LoadFailureNonFatal ==
    /\ [](loadError # "" =>
            /\ pc \in {"load_return", "done"}
            /\ error = "none"
            /\ pc = "done" => "load_failed" \in console)
    /\ [][(pc = "load_return" /\ loadError # "") =>
            (pc' = "done" /\ error' = "none" /\ "load_failed" \in console')]_vars
    /\ []("load_failed" \in console => loadError # "")

C5_Witness ==
    pc = "done" /\ loadError = "killed" /\ "load_failed" \in console /\ error = "none"

\* C6: the call raises exactly one of three errors, each for its own reason:
\* Disabled for a disabling sentinel, LaunchFailed for a detached spawn that
\* threw, TimedOut for a poll that returned false.  A failed `lms server start`,
\* a failed `lms ps` or `lms load` and a missing helper tool never raise.
C6_OnlyThreeFatalErrors ==
    /\ error \in {"none", "Disabled", "LaunchFailed", "TimedOut"}
    /\ pc = "raised" <=> error # "none"
    /\ error = "Disabled" =>
            /\ config.startCommand \in {"false", "0"}
            /\ ~wasAlreadyRunning /\ launches = <<>>
    /\ error = "LaunchFailed" =>
            /\ launches # <<>>
            /\ ~launches[Len(launches)].ok
            /\ launches[Len(launches)].via \in {"spawn", "shell"}
    /\ error = "TimedOut" =>
            /\ ~isReady /\ attempts >= 1
            /\ launches # <<>> /\ launches[Len(launches)].ok
    /\ (psCalls > 0 \/ loadCalls > 0 \/ loadError # "") => error = "none"
    /\ pc \in LoadStagePcs => error = "none"

C6_Witness ==
    /\ pc = "done" /\ error = "none"
    /\ Len(launches) = 2 /\ ~launches[1].ok
    /\ loadError = "exit1"

----------------------------------------------------------------------------
(* Properties of waitForLMStudio, called on its own.                       *)

\* C7: called with maxWait = 3000 and interval = 1000, the poller that never
\* sees a successful probe returns false no later than about 3100 ms after it
\* started.
C7_ElapsedWithinMaxWait ==
    (pc = "wait_return" /\ ~isReady /\ maxWaitTime = 3000 /\ checkInterval = 1000)
        => elapsed <= 3100

\* C8 as stated: the poller that never sees a successful probe has made at
\* least maxWait / interval probes when it returns false (3 for 3000 / 1000).
C8_AtLeastMaxWaitOverIntervalAttempts ==
    /\ (pc = "wait_return" /\ ~isReady /\ maxWaitTime = 3000 /\ checkInterval = 1000)
            => attempts >= 3
    /\ (pc = "wait_return" /\ ~isReady) => attempts * checkInterval >= maxWaitTime

\* C8 amended: the poller that never sees a successful probe has made at
\* least one probe when it returns false, each followed by one sleep, and the
\* sleeps together with the time spent in the probes cover maxWait; so it has
\* made maxWait / interval probes when the probes took no time.
C8_AttemptsAndProbeTimeCoverMaxWait ==
    (pc = "wait_return" /\ ~isReady) =>
        LET probeTime == elapsed - sleeps * checkInterval
        IN  /\ attempts >= 1
            /\ sleeps = attempts
            /\ probeTime >= 0
            /\ attempts * checkInterval + probeTime >= maxWaitTime
            /\ probeTime = 0 => attempts * checkInterval >= maxWaitTime

C8_Witness ==
    /\ pc = "wait_return" /\ ~isReady
    /\ maxWaitTime = 3000 /\ checkInterval = 1000
    /\ attempts = 1 /\ elapsed = 3000

\* C9: the step in which a probe of the loop returns true is the return of
\* true: no sleep and no probe follows it, so the poller has slept once per
\* failed probe only and returns before the budget is spent.
C9_ReturnsOnFirstSuccess ==
    /\ [][(pc = "wait_check" /\ attempts' = attempts + 1 /\ accessible')
            => (pc' = "wait_return" /\ isReady'
                /\ sleeps' = sleeps /\ probes' = probes + 1)]_vars
    /\ []((pc = "wait_return" /\ isReady) => (accessible /\ sleeps = attempts - 1))
    /\ [](pc = "wait_sleep" => (~accessible /\ ~isReady))

C9_Witness ==
    /\ pc = "wait_return" /\ isReady
    /\ attempts = 2 /\ sleeps = 1
    /\ elapsed + checkInterval < maxWaitTime

----------------------------------------------------------------------------
(* Properties of loadModelWithCLI, called on its own.                      *)

IsGpuArg(a) == Slice(a, 1, 6) = "--gpu="

\* The --gpu arguments of the argument list.
GpuArgsOf(as) == SelectSeq(as, IsGpuArg)

\* The value is "auto" or empty.
GpuUnset(g) == g \in {"auto", "", Undefined}

\* The value parses as a number of [0.0, 1.0].
GpuIsFraction(g) == InUnitInterval(ParseFloat(g))

\* What the claim says of the examples it names.
C10_Examples ==
    /\ config.gpu = "auto" => GpuArgsOf(args) = <<>> /\ "invalid_gpu" \notin console
    /\ config.gpu = "max" => GpuArgsOf(args) = <<"--gpu=max">>
    /\ config.gpu = "0.5" => GpuArgsOf(args) = <<"--gpu=0.5">>
    /\ config.gpu \in {"1.5", "banana"} =>
            GpuArgsOf(args) = <<>> /\ "invalid_gpu" \in console

\* The load attempt goes on whatever the GPU value is.
C10_LoadProceeds ==
    /\ pc = "load_spawn" => loadCalls = 0 /\ error = "none"
    /\ pc = "load_return" => loadCalls = 1 /\ error = "none"

\* C10 as stated: once the argument list is built, it holds no --gpu argument
\* for "auto" or an empty value, --gpu=max for "max", --gpu=<fraction> for a
\* value that parses as a number of [0.0, 1.0], and for any other value no
\* --gpu argument and a warning; the load goes on.
C10_GpuArgumentAsStated ==
    pc \in {"load_spawn", "load_return"} =>
        /\ C10_Examples
        /\ C10_LoadProceeds
        /\ Len(GpuArgsOf(args)) <= 1
        /\ GpuUnset(config.gpu) => GpuArgsOf(args) = <<>>
        /\ (~GpuUnset(config.gpu) /\ config.gpu # "max" /\ GpuIsFraction(config.gpu)) =>
                GpuArgsOf(args) = <<"--gpu=" \o NumberToString(ParseFloat(config.gpu))>>
        /\ (~GpuUnset(config.gpu) /\ config.gpu # "max" /\ ~GpuIsFraction(config.gpu)) =>
                GpuArgsOf(args) = <<>> /\ "invalid_gpu" \in console

\* C10 amended: --gpu=max is emitted for "max" in any letter case ("max",
\* "MAX", "Max"), without a warning; the rest is as stated.
C10_GpuArgumentMaxAnyCase ==
    pc \in {"load_spawn", "load_return"} =>
        LET isMax == config.gpu \in {"max", "MAX", "Max"}
        IN  /\ C10_Examples
            /\ C10_LoadProceeds
            /\ Len(GpuArgsOf(args)) <= 1
            /\ GpuUnset(config.gpu) => GpuArgsOf(args) = <<>>
            /\ isMax => GpuArgsOf(args) = <<"--gpu=max">> /\ "invalid_gpu" \notin console
            /\ (~GpuUnset(config.gpu) /\ ~isMax /\ GpuIsFraction(config.gpu)) =>
                    /\ GpuArgsOf(args) = <<"--gpu=" \o NumberToString(ParseFloat(config.gpu))>>
                    /\ "invalid_gpu" \notin console
            /\ (~GpuUnset(config.gpu) /\ ~isMax /\ ~GpuIsFraction(config.gpu)) =>
                    GpuArgsOf(args) = <<>> /\ "invalid_gpu" \in console

C10_Witness ==
    /\ pc = "load_return" /\ loadCalls = 1
    /\ config.gpu = "MAX"
    /\ args = <<"load", "qwen3", "--gpu=max">>
    /\ "invalid_gpu" \notin console

----------------------------------------------------------------------------
(* Properties of checkLMStudioAccessible, called on its own.               *)

\* C11: the prober returns a boolean, and it returns true exactly when the
\* GET of {baseURL}/models was answered (no timeout, no connection error) with
\* a status of 200..299, however `lms version` and `lms server status` ended
\* and in the version without the helper tool alike.
C11_TrueIffFetchAnswers2xx ==
    pc = "probe_return" =>
        /\ accessible \in BOOLEAN
        /\ accessible <=> (/\ probeIn.fetch.why = "response"
                           /\ probeIn.fetch.status >= 200
                           /\ probeIn.fetch.status <= 299)
        /\ probes = 1 /\ error = "none"

C11_Witness ==
    /\ pc = "probe_return" /\ ~accessible
    /\ probeIn.impl = "latest"
    /\ probeIn.version = "exit0" /\ probeIn.status = "exit0"
    /\ probeIn.fetch.why = "timeout"

----------------------------------------------------------------------------
(* Properties of startLMStudio inside ensureLMStudioRunning.               *)

\* The platform default launches.
PlatformDefaults == {"open -a LM Studio", "start lmstudio", "lmstudio"}

\* C12: with a non-empty custom start command the helper tool is not asked
\* for, `lms server start` is not run, the platform default is not used, and
\* the only launch is the custom command through a shell; `lms server start`
\* is run only without a custom command and with the helper tool available.
C12_CustomCommandFirst ==
    /\ config.startCommand \notin {Undefined, ""} =>
            /\ Len(launches) <= 1
            /\ \A i \in 1..Len(launches) :
                    /\ launches[i].cmd = config.startCommand
                    /\ launches[i].via = "shell"
                    /\ launches[i].cmd \notin PlatformDefaults \cup {"lms server start"}
            /\ pc \notin {"start_cli", "start_blocked", "start_gui"}
            /\ ~startHasCLI
    /\ \A i \in 1..Len(launches) :
            launches[i].cmd = "lms server start" =>
                /\ i = 1
                /\ config.startCommand \in {Undefined, ""}
                /\ startHasCLI
    /\ pc \in {"start_cli", "start_blocked"} =>
            config.startCommand \in {Undefined, ""} /\ startHasCLI

C12_Witness ==
    /\ pc = "wait_check"
    /\ config.startCommand = "lmstudio --headless"
    /\ launches = <<[cmd |-> "lmstudio --headless", via |-> "shell", ok |-> TRUE]>>

\* The launches that spawned a detached process.
Detached == { i \in 1..Len(launches) : launches[i].via \in {"spawn", "shell"} }

\* C13: one call enters startLMStudio at most once, from the failed initial
\* probe and with nothing launched yet; it spawns at most one detached process
\* (after at most one `lms server start`); nothing is launched once the poll
\* has begun, and a poll that returns false raises without another launch.
C13_AtMostOneLaunch ==
    /\ [](/\ Cardinality(Detached) <= 1
          /\ Len(launches) <= 2
          /\ Len(launches) = 2 =>
                (launches[1].cmd = "lms server start" /\ ~launches[1].ok /\ Detached = {2})
          /\ error = "TimedOut" => pc = "raised")
    /\ [][pc' = "start_entry" =>
            (pc = "not_running" /\ launches = <<>> /\ probes = 1 /\ attempts = 0)]_vars
    /\ [][launches' # launches =>
            (pc \in {"start_cli", "start_gui", "start_shell"} /\ attempts = 0)]_vars
    /\ [][(pc \in PollPcs \/ pc = "raised") => launches' = launches]_vars
    /\ [][(pc = "wait_return" /\ ~isReady) =>
            (pc' = "raised" /\ error' = "TimedOut")]_vars

C13_Witness ==
    /\ pc = "raised" /\ error = "TimedOut"
    /\ Len(launches) = 2 /\ Cardinality(Detached) = 1
    /\ attempts >= 10

\* The last launch attempted.
LastLaunch == launches[Len(launches)]

\* C17: when startLMStudio has returned without raising, by any of its three
\* paths, the next step of ensureLMStudioRunning is the call of the readiness
\* poller with its defaults; and a call whose initial probe failed enters the
\* model-load stage only from a poll that returned true on a successful probe.
C17_LaunchThenPoll ==
    /\ [](pc = "start_return" =>
            /\ error = "none" /\ attempts = 0
            /\ launches # <<>> /\ LastLaunch.ok
            /\ LastLaunch.cmd \in PlatformDefaults \cup {"lms server start", config.startCommand})
    /\ [][pc = "start_return" =>
            (pc' = "wait_check" /\ maxWaitTime' = 30000 /\ checkInterval' = 1000
                /\ attempts' = 0 /\ isReady' = FALSE)]_vars
    /\ []((pc \in LoadStagePcs /\ ~wasAlreadyRunning) =>
            (isReady /\ accessible /\ attempts >= 1 /\ launches # <<>>))
    /\ [][(pc' = "load_stage" /\ pc # "load_stage" /\ ~wasAlreadyRunning') =>
            (pc = "wait_return" /\ isReady /\ accessible)]_vars

C17_Witness ==
    /\ pc = "done" /\ ~wasAlreadyRunning
    /\ Len(launches) = 1 /\ LastLaunch.cmd = "lms server start" /\ LastLaunch.ok
    /\ attempts = 3 /\ isReady

IsPlatformDefault(l) ==
    /\ platform = "darwin" => (l.cmd = "open -a LM Studio" /\ l.via = "spawn")
    /\ platform = "win32" => (l.cmd = "start lmstudio" /\ l.via = "shell")
    /\ platform = "linux" => (l.cmd = "lmstudio" /\ l.via = "shell")

\* C19: without a custom command, a missing helper tool and an
\* `lms server start` that did not exit 0 both lead, without an error, to the
\* platform default launch: detached `open -a` on macOS, `start lmstudio`
\* through a shell on Windows, `lmstudio` through a shell elsewhere.
C19_FallbackToPlatformDefault ==
    /\ [][(pc = "start_entry" /\ config.startCommand \in {Undefined, ""} /\ ~startHasCLI') =>
            (pc' = "start_gui" /\ error' = "none" /\ launches' = <<>>)]_vars
    /\ [][(pc = "start_cli" /\ pc' # "start_blocked" /\ ~launches'[Len(launches')].ok) =>
            (pc' = "start_gui" /\ error' = "none")]_vars
    /\ [][(pc = "start_gui" /\ launches' # launches) =>
            IsPlatformDefault(launches'[Len(launches')])]_vars
    /\ [][(pc = "start_gui" /\ launches' = launches) =>
            (pc' = "start_shell" /\ error' = "none")]_vars
    /\ [][(pc = "start_shell" /\ config.startCommand \in {Undefined, ""}) =>
            (launches' # launches /\ IsPlatformDefault(launches'[Len(launches')]))]_vars
    /\ []((launches # <<>> /\ LastLaunch.cmd = "lms server start" /\ ~LastLaunch.ok) =>
            (error = "none" /\ pc \in {"start_gui", "start_shell", "start_blocked"}))
    /\ []((config.startCommand \in {Undefined, ""} /\ pc \in PollPcs \cup LoadStagePcs
                /\ ~wasAlreadyRunning /\ (~startHasCLI \/ ~launches[1].ok)) =>
            (IsPlatformDefault(LastLaunch) /\ LastLaunch.ok))

C19_Witness ==
    /\ platform = "win32" /\ pc = "done"
    /\ launches = << [cmd |-> "lms server start", via |-> "spawnSync", ok |-> FALSE],
                     [cmd |-> "start lmstudio", via |-> "shell", ok |-> TRUE] >>

\* C20: when the initial probe succeeds the call is in the model-load stage or
\* done, with that one probe only, no launch, no helper detection for a
\* launch, no poll and no error, whatever the start command is.
C20_RunningSkipsLaunch ==
    /\ [](wasAlreadyRunning =>
            /\ pc \in LoadStagePcs
            /\ probes = 1
            /\ launches = <<>> /\ ~startHasCLI /\ startCommand = Undefined
            /\ attempts = 0 /\ sleeps = 0 /\ maxWaitTime = 0 /\ ~isReady
            /\ error = "none")
    /\ [][(pc = "ensure_check" /\ accessible') =>
            (pc' = "load_stage" /\ wasAlreadyRunning' /\ probes' = 1)]_vars

C20_Witness ==
    /\ wasAlreadyRunning /\ pc = "done"
    /\ config.startCommand = "false"
    /\ probes = 1 /\ launches = <<>> /\ loadCalls = 1

----------------------------------------------------------------------------
(* Termination of ensureLMStudioRunning.                                   *)

\* C14: every call of ensureLMStudioRunning eventually returns or raises,
\* even when a helper command never exits on its own.
C14_EventuallyTerminal == <>(pc \in {"done", "raised"})

\* What the code does ensure: the call returns or raises unless it is blocked
\* in the spawnSync of `lms server start`, the one call without a timeout.
C14_TerminalUnlessServerStartBlocks == <>(pc \in {"done", "raised", "start_blocked"})

----------------------------------------------------------------------------
(* Properties of main.                                                     *)

\* C15: with a missing or placeholder model id (config.lmstudio.model is then
\* "YOUR_MODEL_ID_HERE") main never calls ensureLMStudioRunning: no probe, no
\* launch, no `lms ps`, no `lms load` and no commit happen in the run, and
\* validateConfig, once reached, ends the run with exit code 1 and the
\* configuration error.
C15_ConfigErrorBeforeLifecycle ==
    /\ [](config.model \in {Undefined, "", "YOUR_MODEL_ID_HERE"} =>
            /\ pc = "idle"
            /\ probes = 0 /\ attempts = 0 /\ launches = <<>>
            /\ psCalls = 0 /\ loadCalls = 0 /\ commits = <<>>
            /\ mainPc \in {"main_help", "main_diff", "main_validate", "exited"})
    /\ [][(mainPc = "main_validate" /\ config.model = "YOUR_MODEL_ID_HERE") =>
            (mainPc' = "exited" /\ exitCode' = 1 /\ mainError' = "ConfigInvalid")]_vars
    /\ [](mainError = "ConfigInvalid" =>
            (config.model = "YOUR_MODEL_ID_HERE" /\ exitCode = 1 /\ pc = "idle"))
    /\ [](pc # "idle" => config.model \notin {Undefined, "", "YOUR_MODEL_ID_HERE"})

C15_Witness ==
    /\ mainPc = "exited" /\ exitCode = 1 /\ mainError = "ConfigInvalid"
    /\ diff = "diff --git a/x b/x"
    /\ pc = "idle" /\ probes = 0 /\ launches = <<>>

\* `git commit` ran once, with the message generateCommitMessage returned,
\* after ensureLMStudioRunning returned, without --no-commit and on a TTY.
C16_CommitAfterPrompt ==
    /\ commitMsg # Undefined
    /\ commits = <<commitMsg>>
    /\ pc = "done"
    /\ argv = {}
    /\ isTTY
    /\ confirmed
    /\ mainPc = "exited"
    /\ answer # PromptTimeout

\* Nothing is committed before the prompt, in preview mode, without a TTY or
\* at the timeout.
C16_NoCommitOtherwise ==
    /\ (mainPc # "exited" \/ "--no-commit" \in argv \/ ~isTTY
            \/ answer \in {Undefined, PromptTimeout} \/ ~confirmed) => commits = <<>>
    /\ (mainPc = "main_confirmed" /\ (~isTTY \/ answer = PromptTimeout)) => ~confirmed

\* C16 as stated: git commit is run only after a message was generated and
\* the user typed y or yes at the interactive prompt; never with --no-commit,
\* without a TTY, after the timeout or after any other answer.
C16_CommitOnlyAfterYOrYes ==
    /\ C16_NoCommitOtherwise
    /\ commits # <<>> => (C16_CommitAfterPrompt /\ answer \in {"y\n", "yes\n", " y \n"})

\* C16 amended: the answer is y or yes in any letter case, white space around
\* it aside.
C16_CommitOnlyAfterYOrYesAnyCase ==
    /\ C16_NoCommitOtherwise
    /\ commits # <<>> =>
            /\ C16_CommitAfterPrompt
            /\ answer \in {"y\n", "yes\n", " y \n", "Y\n", "YES\n", " Yes \n"}
    /\ (mainPc = "main_confirmed"
            /\ answer \in {"n\n", "no\n", "\n", "ye\n", "yy\n", "yes please\n", "oui\n"})
        => ~confirmed

C16_Witness ==
    /\ mainPc = "exited" /\ exitCode = 0
    /\ answer = "YES\n"
    /\ commits = <<"feat: add x">>

----------------------------------------------------------------------------
(* Properties of the model-load stage.                                     *)

\* C21: `lms ps` and `lms load` are run, and the positions between them are
\* reached, only with loadModel enabled, a model id that is neither empty nor
\* the placeholder, and a server found reachable by the initial probe or by
\* the poll; the model id is the one passed to `lms load`.
C21_LoaderOnlyWithRealModel ==
    /\ []((psCalls > 0 \/ loadCalls > 0 \/ args # <<>>
                \/ pc \in {"load_has_cli", "load_ps", "load_args", "load_spawn", "load_return"}) =>
            /\ config.loadModel
            /\ config.model \notin {Undefined, "", "YOUR_MODEL_ID_HERE"}
            /\ wasAlreadyRunning \/ isReady
            /\ accessible
            /\ error = "none")
    /\ [][(psCalls' # psCalls \/ loadCalls' # loadCalls) =>
            (hasCLI /\ config.loadModel /\ (wasAlreadyRunning \/ isReady)
                /\ config.model \notin {Undefined, "", "YOUR_MODEL_ID_HERE"})]_vars
    /\ [](args # <<>> => (args[1] = "load" /\ args[2] = config.model))

C21_Witness ==
    /\ pc = "done" /\ psCalls = 1 /\ loadCalls = 1
    /\ wasAlreadyRunning /\ config.model = "qwen3" /\ config.loadModel

\* `lms ps` exited 0 and printed the model id or the configured identifier.
PsListsModel ==
    /\ psResult.outcome = "exit0"
    /\ \/ Includes(psResult.stdout, config.model)
       \/ /\ config.modelIdentifier \notin {Undefined, ""}
          /\ Includes(psResult.stdout, config.modelIdentifier)

\* C22: when `lms ps` has exited 0 with the model id or the configured
\* identifier in its output, the stage ends with the model noted as loaded
\* and `lms load` is never run; when `lms ps` failed or printed neither, the
\* stage goes on to `lms load`, which is run once and never twice.
C22_AlreadyLoadedShortCircuit ==
    /\ [][pc = "load_ps" =>
            IF PsListsModel
            THEN pc' = "done" /\ "already_loaded" \in console' /\ loadCalls' = 0
            ELSE pc' = "load_args" /\ "not_loaded" \in console' /\ loadCalls' = 0]_vars
    /\ []("already_loaded" \in console =>
            (pc = "done" /\ loadCalls = 0 /\ "not_loaded" \notin console))
    /\ []("not_loaded" \in console =>
            \/ pc \in {"load_args", "load_spawn"} /\ loadCalls = 0
            \/ pc \in {"load_return", "done"} /\ loadCalls = 1)
    /\ [][pc = "load_args" => pc' = "load_spawn"]_vars
    /\ [][pc = "load_spawn" => (loadCalls' = 1 /\ pc' = "load_return")]_vars
    /\ [](psCalls <= 1 /\ loadCalls <= 1)

C22_Witness ==
    /\ pc = "done" /\ psCalls = 1 /\ loadCalls = 0
    /\ "already_loaded" \in console
    /\ config.modelIdentifier = "coder-id"

----------------------------------------------------------------------------
(* More properties of waitForLMStudio and of the outcome of                *)
(* ensureLMStudioRunning.                                                  *)

\* C23: in waitForLMStudio a failed probe is followed by the sleep, the sleep
\* lasts one checkInterval and leads back to the loop condition, so there is
\* one sleep per failed probe: before the next probe and before the return
\* of false.
C23_OneSleepPerFailedProbe ==
    /\ [][(pc = "wait_check" /\ attempts' = attempts + 1 /\ ~accessible') =>
            (pc' = "wait_sleep" /\ sleeps' = sleeps)]_vars
    /\ [][pc = "wait_sleep" =>
            (pc' = "wait_check" /\ sleeps' = sleeps + 1
                /\ elapsed' = elapsed + checkInterval
                /\ attempts' = attempts /\ probes' = probes)]_vars
    /\ [][attempts' = attempts + 1 => (pc = "wait_check" /\ sleeps = attempts)]_vars
    /\ [](pc = "wait_sleep" => sleeps = attempts - 1)
    /\ []((pc = "wait_return" /\ ~isReady) => (sleeps = attempts /\ attempts >= 1))
    /\ [](elapsed >= sleeps * checkInterval)

C23_Witness ==
    /\ pc = "wait_return" /\ ~isReady
    /\ maxWaitTime = 3000 /\ checkInterval = 500
    /\ attempts = 6 /\ sleeps = 6 /\ elapsed = 3000

\* C24: a call that has returned has raised nothing, and its last probe
\* returned true: either the initial probe, the only one then, or a probe of
\* the poll, which then returned true; the return is reached from the
\* model-load stage only.
C24_SuccessOnlyViaRunningOrReady ==
    /\ [](pc = "done" =>
            /\ error = "none"
            /\ accessible
            /\ wasAlreadyRunning => (probes = 1 /\ attempts = 0 /\ ~isReady)
            /\ ~wasAlreadyRunning => (isReady /\ attempts >= 1 /\ probes = attempts + 1))
    /\ [][accessible' # accessible => probes' = probes + 1]_vars
    /\ [][(pc' = "done" /\ pc # "done") =>
            pc \in {"load_stage", "load_has_cli", "load_ps", "load_return"}]_vars
    /\ [][(pc = "done" \/ pc = "raised") => (pc' = pc)]_vars

C24_Witness ==
    /\ pc = "done" /\ ~wasAlreadyRunning /\ isReady
    /\ attempts = 30 /\ sleeps = 29

----------------------------------------------------------------------------
(* isLMSCLIAvailable called on its own.                                    *)

\* A call of isLMSCLIAvailable().
InitDetect ==
    /\ config = LoadConfig(DefaultEnv)
    /\ platform = "darwin"
    /\ pc = "detect_entry"
    /\ maxWaitTime = 0
    /\ checkInterval = 0
    /\ Fresh
    /\ cliRun \in CliRuns
    /\ prompt = NoPrompt
    /\ v1 = NoV1
    /\ probeIn = NoProbe
    /\ NoMain

\* 279-288: the call returns; the catch block turns a throw into false.
Detect ==
    /\ pc = "detect_entry"
    /\ hasCLI' = isLMSCLIAvailable(SpawnSyncResult(cliRun, DetectTimeout))
    /\ pc' = "detect_return"
    /\ UNCHANGED <<mainVars, callVars, psResult, probeIn, startHasCLI, config,
                   platform, error, startCommand, wasAlreadyRunning, accessible,
                   isReady, maxWaitTime, checkInterval, elapsed, probes,
                   attempts, sleeps, launches, psCalls, loadCalls, args,
                   loadError, console>>

NextDetect == Detect

SpecDetect == InitDetect /\ [][NextDetect]_vars

\* C25: isLMSCLIAvailable returns true exactly when `lms version` was
\* started and exited with code 0 before the 2000 ms timeout; a missing or
\* unexecutable program, a throw of the call, a timeout and a non-zero exit
\* give false, and the call raises nothing.
C25_AvailableIffVersionExitsZero ==
    /\ pc \in {"detect_entry", "detect_return"}
    /\ error = "none"
    /\ pc = "detect_entry" => ~hasCLI
    /\ pc = "detect_return" =>
        (hasCLI <=> (cliRun.spawn = "ok" /\ cliRun.code = 0 /\ cliRun.ms < 2000))

C25_Witness ==
    /\ pc = "detect_return"
    /\ cliRun = [spawn |-> "ok", code |-> 0, ms |-> 1999]
    /\ hasCLI

----------------------------------------------------------------------------
(* The options of `lms load`.                                              *)

IsContextArg(a) == Slice(a, 1, 17) = "--context-length="

IsIdentifierArg(a) == Slice(a, 1, 13) = "--identifier="

\* The option is set to something.
Configured(v) == v \notin {Undefined, ""}

\* C26: the argument list of `lms load` starts with load and the model id;
\* it holds --context-length=<value> exactly when a context length is
\* configured and --identifier=<value> exactly when an identifier is
\* configured, whatever the other one and the GPU option are, and nothing
\* else but the GPU argument.
C26_LoadOptionsIndependent ==
    pc \in {"load_spawn", "load_return"} =>
        /\ Len(args) >= 2
        /\ args[1] = "load"
        /\ args[2] = config.model
        /\ SelectSeq(args, IsContextArg) =
                (IF Configured(config.contextLength)
                 THEN <<"--context-length=" \o config.contextLength>> ELSE <<>>)
        /\ SelectSeq(args, IsIdentifierArg) =
                (IF Configured(config.modelIdentifier)
                 THEN <<"--identifier=" \o config.modelIdentifier>> ELSE <<>>)
        /\ Len(args) = 2 + Len(GpuArgsOf(args))
                         + Len(SelectSeq(args, IsContextArg))
                         + Len(SelectSeq(args, IsIdentifierArg))

C26_Witness ==
    /\ pc = "load_return"
    /\ config.gpu = "auto"
    /\ config.contextLength = ""
    /\ args = <<"load", "qwen3", "--identifier=coder-id">>

----------------------------------------------------------------------------
(* The version of the lifecycle manager without the helper tool            *)
(* (unnamed/part_001), run next to the latest one.  The record v1 holds    *)
(* its position and locals.  The two runs take turns: the latest version   *)
(* takes a step, then the earlier one takes its next step with the same    *)
(* input (probe result, fetch time, spawn outcome).  When the earlier      *)
(* version is about to read an input that the latest never read, the runs  *)
(* have split: it reads an input of its own from then on.                  *)

\* waitForLMStudio's default parameters in the earlier version (77).
V1MaxWaitTime == 30000

V1CheckInterval == 1000

\* Everything but v1.
latestVars == <<config, platform, pc, lifecycleVars, mainVars, cliRun, prompt>>

\* The earlier version before its call.
V1Fresh ==
    [pc |-> "ensure_check", split |-> FALSE, error |-> "none",
     startCommand |-> Undefined, accessible |-> FALSE, isReady |-> FALSE,
     elapsed |-> 0, probes |-> 0, attempts |-> 0, sleeps |-> 0, launches |-> <<>>]

\* The position of the earlier version that a position of the latest one
\* corresponds to: the earlier version returns where the latest one enters
\* its model-load stage.
PcBar(p) == IF p = "load_stage" THEN "done" ELSE p

Terminal(p) == p \in {"done", "raised"}

\* The latest version steps when the earlier one has caught up.
LatestTurn == v1.split \/ v1.pc = PcBar(pc)

\* The earlier version steps when it is behind, and on its own once the
\* latest has returned.
V1Turn ==
    /\ ~Terminal(v1.pc)
    /\ IF v1.split THEN Terminal(pc) ELSE v1.pc # PcBar(pc)

\* The latest version has made a probe that the earlier one has not.
ProbeAhead == ~v1.split /\ probes = v1.probes + 1

\* The latest version has made a launch that the earlier one has not.
LaunchAhead == ~v1.split /\ Len(launches) = Len(v1.launches) + 1

\* Environments with model loading disabled.
EquivEnvs ==
    Envs({Undefined, "qwen3"},
         {Undefined, "", "false", "0", "lmstudio --headless"},
         {"false"},
         {Undefined},
         {Undefined},
         {Undefined})

\* Ways for `lms version` to fail: no such program, a throw of the call, an
\* exit with code 1 after 1000 ms, a child killed at the timeout.
UnavailableRuns ==
    { [spawn |-> "enoent", code |-> 0, ms |-> 0],
      [spawn |-> "throw", code |-> 0, ms |-> 0],
      [spawn |-> "ok", code |-> 1, ms |-> 1000],
      [spawn |-> "ok", code |-> 0, ms |-> 5000] }

InitEquiv ==
    /\ \E env \in EquivEnvs : config = LoadConfig(env)
    /\ platform \in Platforms
    /\ pc = "ensure_check"
    /\ maxWaitTime = 0
    /\ checkInterval = 0
    /\ Fresh
    /\ cliRun \in UnavailableRuns
    /\ ~isLMSCLIAvailable(SpawnSyncResult(cliRun, DetectTimeout))
    /\ prompt = NoPrompt
    /\ v1 = V1Fresh
    /\ probeIn = NoProbe
    /\ NoMain

\* part_001 102-105: the initial probe.
V1EnsureCheck ==
    /\ V1Turn
    /\ v1.pc = "ensure_check"
    /\ \E r \in ProbeResults :
        /\ ProbeAhead => r = accessible
        /\ v1' = [v1 EXCEPT !.accessible = r,
                            !.probes = @ + 1,
                            !.split = ~ProbeAhead,
                            !.pc = IF r THEN "done" ELSE "not_running"]
    /\ UNCHANGED latestVars

\* Faulty variant: only "false" disables the start.
V1EnsureNotRunningOnlyFalse ==
    /\ V1Turn
    /\ v1.pc = "not_running"
    /\ v1' = IF config.startCommand = "false"
             THEN [v1 EXCEPT !.error = "Disabled", !.pc = "raised"]
             ELSE [v1 EXCEPT !.startCommand = config.startCommand,
                             !.pc = "start_entry"]
    /\ UNCHANGED latestVars

\* part_001 109-117: the disabling sentinel raises, anything else calls
\* startLMStudio.
V1EnsureNotRunning ==
    /\ V1Turn
    /\ v1.pc = "not_running"
    /\ v1' = IF config.startCommand = "false" \/ config.startCommand = "0"
             THEN [v1 EXCEPT !.error = "Disabled", !.pc = "raised"]
             ELSE [v1 EXCEPT !.startCommand = config.startCommand,
                             !.pc = "start_entry"]
    /\ UNCHANGED latestVars

\* part_001 33: if (!startCommand).
V1StartEntry ==
    /\ V1Turn
    /\ v1.pc = "start_entry"
    /\ v1' = [v1 EXCEPT !.pc = IF ~Truthy(v1.startCommand)
                                THEN "start_gui" ELSE "start_shell"]
    /\ UNCHANGED latestVars

\* part_001 35-52: the platform default.
V1StartGUI ==
    /\ V1Turn
    /\ v1.pc = "start_gui"
    /\ IF platform = "darwin"
       THEN \E o \in SpawnOutcomes :
                /\ LaunchAhead => (o = "ok") = launches[Len(launches)].ok
                /\ v1' = [v1 EXCEPT
                            !.launches = Append(@, [cmd |-> "open -a LM Studio",
                                                    via |-> "spawn", ok |-> o = "ok"]),
                            !.split = ~LaunchAhead,
                            !.error = IF o = "ok" THEN @ ELSE "LaunchFailed",
                            !.pc = IF o = "ok" THEN "start_return" ELSE "raised"]
       ELSE v1' = [v1 EXCEPT
                    !.startCommand = IF platform = "win32"
                                     THEN "start lmstudio" ELSE "lmstudio",
                    !.pc = "start_shell"]
    /\ UNCHANGED latestVars

\* part_001 55-67: the command through a shell.
V1StartShell ==
    /\ V1Turn
    /\ v1.pc = "start_shell"
    /\ \E o \in SpawnOutcomes :
        /\ LaunchAhead => (o = "ok") = launches[Len(launches)].ok
        /\ v1' = [v1 EXCEPT
                    !.launches = Append(@, [cmd |-> v1.startCommand,
                                            via |-> "shell", ok |-> o = "ok"]),
                    !.split = ~LaunchAhead,
                    !.error = IF o = "ok" THEN @ ELSE "LaunchFailed",
                    !.pc = IF o = "ok" THEN "start_return" ELSE "raised"]
    /\ UNCHANGED latestVars

\* part_001 118, 77-79: waitForLMStudio(baseURL) is called.
V1EnsureWait ==
    /\ V1Turn
    /\ v1.pc = "start_return"
    /\ v1' = [v1 EXCEPT !.elapsed = 0, !.pc = "wait_check"]
    /\ UNCHANGED latestVars

\* part_001 81-85: the loop condition holds and the probe runs.  The fetch of
\* a probe that the latest version has made took what that probe took but
\* for its `lms version` call.
V1WaitProbe ==
    /\ V1Turn
    /\ v1.pc = "wait_check"
    /\ v1.elapsed < V1MaxWaitTime
    /\ \E r \in ProbeResults, d \in ProbeDurations :
        /\ ProbeAhead => (r = accessible
                            /\ v1.elapsed + d = elapsed - attempts * DetectTime)
        /\ v1' = [v1 EXCEPT !.accessible = r,
                            !.isReady = r,
                            !.elapsed = @ + d,
                            !.probes = @ + 1,
                            !.attempts = @ + 1,
                            !.split = ~ProbeAhead,
                            !.pc = IF r THEN "wait_return" ELSE "wait_sleep"]
    /\ UNCHANGED latestVars

\* part_001 86-87: the sleep of one interval.
V1WaitSleep ==
    /\ V1Turn
    /\ v1.pc = "wait_sleep"
    /\ v1' = [v1 EXCEPT !.elapsed = @ + V1CheckInterval,
                        !.sleeps = @ + 1,
                        !.pc = "wait_check"]
    /\ UNCHANGED latestVars

\* part_001 81, 90-91: the loop condition fails.
V1WaitTimeout ==
    /\ V1Turn
    /\ v1.pc = "wait_check"
    /\ ~(v1.elapsed < V1MaxWaitTime)
    /\ v1' = [v1 EXCEPT !.isReady = FALSE,
                        !.split = @ \/ PcBar(pc) # "wait_return" \/ isReady,
                        !.pc = "wait_return"]
    /\ UNCHANGED latestVars

\* part_001 120-127: a poll that failed raises.
V1EnsureAfterWait ==
    /\ V1Turn
    /\ v1.pc = "wait_return"
    /\ v1' = IF ~v1.isReady
             THEN [v1 EXCEPT !.error = "TimedOut", !.pc = "raised"]
             ELSE [v1 EXCEPT !.pc = "done"]
    /\ UNCHANGED latestVars

\* The steps of the latest version, with the helper tool unavailable.
EqEnsureCheck == LatestTurn /\ EnsureCheck

EqEnsureNotRunning == LatestTurn /\ EnsureNotRunning

EqStartDetect ==
    /\ LatestTurn
    /\ StartDetect
    /\ startHasCLI' = isLMSCLIAvailable(SpawnSyncResult(cliRun, DetectTimeout))

EqStartGUI == LatestTurn /\ StartGUI

EqStartShell == LatestTurn /\ StartShell

EqEnsureWait == LatestTurn /\ EnsureWait

EqWaitProbe == LatestTurn /\ WaitProbe

EqWaitSleep == LatestTurn /\ WaitSleep

EqWaitTimeout == LatestTurn /\ WaitTimeout

EqEnsureAfterWait == LatestTurn /\ EnsureAfterWait

EqEnsureLoadStage == LatestTurn /\ EnsureLoadStage

NextEquiv ==
    \/ EqEnsureCheck \/ EqEnsureNotRunning \/ EqStartDetect \/ EqStartGUI
    \/ EqStartShell \/ EqEnsureWait \/ EqWaitProbe \/ EqWaitSleep
    \/ EqWaitTimeout \/ EqEnsureAfterWait \/ EqEnsureLoadStage
    \/ V1EnsureCheck \/ V1EnsureNotRunning \/ V1StartEntry \/ V1StartGUI
    \/ V1StartShell \/ V1EnsureWait \/ V1WaitProbe \/ V1WaitSleep
    \/ V1WaitTimeout \/ V1EnsureAfterWait

SpecEquiv == InitEquiv /\ [][NextEquiv]_vars

----------------------------------------------------------------------------
(* The two versions of the lifecycle manager, side by side.                *)

\* The earlier version has caught up with the latest one.
Synced == ~v1.split /\ v1.pc = PcBar(pc)

\* The two runs have made the same probes, launches and sleeps and are in the
\* same outcome.
SameRun ==
    /\ v1.probes = probes
    /\ v1.attempts = attempts
    /\ v1.sleeps = sleeps
    /\ v1.launches = launches
    /\ v1.accessible = accessible
    /\ v1.error = error
    /\ pc \in PollPcs => v1.isReady = isReady

\* With the helper tool unavailable, one probe of the latest version returns
\* what the probe of the earlier version returns for the same fetch.
SameProbe ==
    \A v \in SpawnSyncOutcomes, st \in SpawnSyncOutcomes, f \in FetchOutcomes :
        ~isLMSCLIAvailable(v) =>
            checkLMStudioAccessible(v, st, f) = checkLMStudioAccessibleV1(f)

\* C27 as stated: however `lms version` fails, the earlier version never has
\* to read an input that the latest one has not read, and whenever it has
\* caught up the two runs have made the same probes, launches and sleeps and
\* are in the same outcome.
C27_VersionsAgree ==
    /\ ~v1.split
    /\ Synced => SameRun

\* C27, amended: the two runs agree as long as they have not split; they never
\* split when the failing `lms version` call takes no time; and when they
\* split, it is the latest version that has run out of time in its poll while
\* the earlier one still has time for a probe.
C27_VersionsAgreeWhenDetectionIsInstant ==
    /\ SameProbe
    /\ Synced => SameRun
    /\ DetectTime = 0 => ~v1.split
    /\ v1.split =>
        /\ DetectTime > 0
        /\ pc \in {"wait_return", "raised"}
        /\ ~isReady
        /\ pc = "raised" => error = "TimedOut"
        /\ attempts < v1.attempts
        /\ launches = v1.launches

C27_Witness ==
    /\ DetectTime = 0
    /\ pc = "raised" /\ error = "TimedOut"
    /\ v1.pc = "raised" /\ v1.error = "TimedOut"
    /\ attempts = 30 /\ v1.attempts = 30
    /\ launches = <<[cmd |-> "start lmstudio", via |-> "shell", ok |-> TRUE]>>
    /\ v1.launches = launches

----------------------------------------------------------------------------
(* promptConfirmation (utils/ui.js 32-60), event by event.  The record     *)
(* prompt holds the timer, the number of "data" listeners of stdin, whether *)
(* stdin is paused, the values resolve was called with, and what came      *)
(* after the promise was settled.  A callback runs to its end before the   *)
(* next event is handled.                                                  *)

\* How many chunks of stdin arrive after the promise is settled.
MaxLate == 2

\* What is left untouched by promptConfirmation.
promptFrame == <<config, platform, lifecycleVars, cliRun, v1, mainPc, argv, diff,
                 commitMsg, commits, mainError, exitCode>>

\* cleanup (46-50): clearTimeout, stdin.pause, removeAllListeners("data").  A
\* timer that has fired is not touched by clearTimeout.
Cleanup(pr) ==
    [pr EXCEPT !.timer = IF @ = "armed" THEN "cleared" ELSE @,
               !.paused = TRUE,
               !.listeners = 0]

\* resolve(value): the call is recorded; only the first one settles the
\* promise.
Resolve(pr, value) == [pr EXCEPT !.resolves = Append(@, value)]

Settled(pr) == pr.resolves # <<>>

InitPrompt ==
    /\ config = LoadConfig(DefaultEnv)
    /\ platform = "darwin"
    /\ pc = "prompt_entry"
    /\ maxWaitTime = 0
    /\ checkInterval = 0
    /\ Fresh
    /\ cliRun = NoCliRun
    /\ prompt = NoPrompt
    /\ v1 = NoV1
    /\ probeIn = NoProbe
    /\ mainPc = "none"
    /\ argv = {}
    /\ isTTY \in BOOLEAN
    /\ MainFresh

\* 33-52, 54: the executor of the promise.  Without a terminal it resolves
\* false at once; otherwise it arms the timer and attaches the listener.
PromptStart ==
    /\ pc = "prompt_entry"
    /\ IF ~isTTY
       THEN /\ prompt' = Resolve(prompt, FALSE)
            /\ confirmed' = FALSE
            /\ pc' = "prompt_settled"
       ELSE /\ prompt' = [prompt EXCEPT !.timer = "armed", !.listeners = 1]
            /\ pc' = "prompt_waiting"
            /\ UNCHANGED confirmed
    /\ UNCHANGED <<promptFrame, isTTY, answer>>

\* Faulty variant: the timer's callback does not clean up.
PromptTimerNoCleanup ==
    /\ prompt.timer = "armed"
    /\ prompt' = Resolve([prompt EXCEPT !.timer = "fired"], FALSE)
    /\ confirmed' = IF Settled(prompt) THEN confirmed ELSE FALSE
    /\ answer' = IF Settled(prompt) THEN answer ELSE PromptTimeout
    /\ pc' = "prompt_settled"
    /\ UNCHANGED <<promptFrame, isTTY>>

\* 40-44: the timer fires, if it is still armed: cleanup, then resolve(false).
PromptTimer ==
    /\ prompt.timer = "armed"
    /\ prompt' = Resolve(Cleanup([prompt EXCEPT !.timer = "fired"]), FALSE)
    /\ confirmed' = IF Settled(prompt) THEN confirmed ELSE FALSE
    /\ answer' = IF Settled(prompt) THEN answer ELSE PromptTimeout
    /\ pc' = "prompt_settled"
    /\ UNCHANGED <<promptFrame, isTTY>>

\* 54-58: a chunk of stdin reaches the listener, if there is one and stdin
\* flows: once() removes the listener, then cleanup, then
\* resolve(answer === "y" || answer === "yes").
PromptData ==
    /\ prompt.listeners > 0
    /\ ~prompt.paused
    /\ \E data \in Answers :
        /\ prompt' = Resolve(Cleanup([prompt EXCEPT !.listeners = @ - 1]),
                             promptAnswerConfirms(data))
        /\ confirmed' = IF Settled(prompt) THEN confirmed
                        ELSE promptAnswerConfirms(data)
        /\ answer' = IF Settled(prompt) THEN answer ELSE data
    /\ pc' = "prompt_settled"
    /\ UNCHANGED <<promptFrame, isTTY>>

\* A chunk of stdin arrives when stdin is paused or has no listener: no code
\* of the prompt runs.
PromptLateData ==
    /\ pc = "prompt_settled"
    /\ prompt.listeners = 0 \/ prompt.paused
    /\ Len(SelectSeq(prompt.late, LAMBDA e : e # PromptTimeout)) < MaxLate
    /\ \E data \in Answers : prompt' = [prompt EXCEPT !.late = Append(@, data)]
    /\ UNCHANGED <<promptFrame, pc, isTTY, answer, confirmed>>

\* The deadline of a cleared timer passes: no code of the prompt runs.
PromptLateDeadline ==
    /\ pc = "prompt_settled"
    /\ prompt.timer = "cleared"
    /\ \A i \in 1..Len(prompt.late) : prompt.late[i] # PromptTimeout
    /\ prompt' = [prompt EXCEPT !.late = Append(@, PromptTimeout)]
    /\ UNCHANGED <<promptFrame, pc, isTTY, answer, confirmed>>

NextPrompt ==
    \/ PromptStart \/ PromptTimer \/ PromptData
    \/ PromptLateData \/ PromptLateDeadline

SpecPrompt == InitPrompt /\ [][NextPrompt]_vars

\* C28: resolve is called exactly once, by the timer or by the first chunk of
\* stdin, whichever comes first: the timer gives false, the chunk gives true
\* exactly when it is "y" or "yes" once trimmed and lower-cased; that callback
\* leaves no armed timer and no data listener, and nothing that comes later
\* changes the result.
C28_ResolvesExactlyOnce ==
    /\ [](Len(prompt.resolves) <= 1)
    /\ [](pc = "prompt_waiting" =>
            (~Settled(prompt) /\ prompt.timer = "armed" /\ prompt.listeners = 1))
    /\ [](pc = "prompt_settled" =>
            /\ Len(prompt.resolves) = 1
            /\ prompt.resolves[1] = confirmed
            /\ prompt.timer # "armed"
            /\ prompt.listeners = 0
            /\ isTTY => prompt.paused
            /\ (isTTY /\ answer = PromptTimeout) =>
                    (~confirmed /\ prompt.timer = "fired")
            /\ (isTTY /\ answer # PromptTimeout) =>
                    /\ prompt.timer = "cleared"
                    /\ confirmed <=> ToLowerCase(Trim(answer)) \in {"y", "yes"}
            /\ ~isTTY => (~confirmed /\ prompt.timer = "none"))
    /\ [][pc = "prompt_settled" =>
            (pc' = pc /\ prompt.resolves' = prompt.resolves
                /\ confirmed' = confirmed /\ answer' = answer
                /\ prompt.timer' = prompt.timer
                /\ prompt.listeners' = prompt.listeners)]_vars

C28_Witness ==
    /\ pc = "prompt_settled"
    /\ answer = " Yes \n" /\ confirmed
    /\ prompt.resolves = <<TRUE>>
    /\ prompt.late = <<"n\n", PromptTimeout>>

====
